---- MODULE Spec2Model ----
(***************************************************************************)
(* Model of the chunked video transcription pipeline of src/main.go:       *)
(* chunkVideo, transcribeAudioWhisperCLI, extractFrames,                   *)
(* transcribeFramesTesseractCLI, transcribeVideoLLM, sentLlmPrompt,        *)
(* processChunk and main.                                                  *)
(*                                                                         *)
(* Every function of the source is a small state machine over its own      *)
(* frame (cv, llm, ocr, the task variables); main calls them as the code   *)
(* does.  Spec is the whole program; SpecChunk, SpecPrompt and SpecOCR run *)
(* one function alone over a wider range of inputs.                        *)
(*                                                                         *)
(* Texts are sequences of tokens, concatenation is \o, "" is << >>.        *)
(* Durations are counted in ticks of 1/Res second.                         *)
(***************************************************************************)
EXTENDS Integers, Sequences, FiniteSets, TLC

\* ---------------------------------------------------------------- bounds
\* ticks per second: the resolution at which a probed duration is modelled
Res == 2
\* longest probed duration, in ticks
MaxDurationTicks == 9
\* largest chunk duration (seconds) given on the command line
MaxChunkDuration == 2
\* most videos found under the input path
MaxVideos == 2
\* most frames given to the ensemble when it runs alone
MaxFrames == 2
\* largest runtime.NumCPU()
MaxCPU == 2

\* ------------------------------------------------------ program constants
maxRetries == 3
\* seconds
retryDelay == 15
errorChannelCap == 10
poolCap == 8

VARIABLES
    numVideos,      \* len(videoPaths)
    videoPaths,     \* the video files found under the input path
    fileOf,         \* the file system: output name <<job, kind>> -> file
    chunkDuration,  \* os.Args[3]
    numCPU,         \* runtime.NumCPU()
    mpc,            \* main: where it stands
    videoIndex,     \* main: the loop variable (0-based)
    created,        \* output files created so far: <<job, kind>>
    outFiles,       \* job -> kind -> the file's content, a sequence of lines
    chunks,         \* main: the list chunkVideo returned
    ci,             \* main: index (1-based) of the chunk given to processChunk
    cloudSegs,      \* chunks of the job the cloud model has transcribed
    jobOutcome,     \* job -> how its iteration of main's loop went so far
    refineCalls,    \* job -> calls of sentLlmPrompt with its refinement prompt
    temp,           \* the temporary files and directories that exist
    cv,             \* chunkVideo's frame
    au,             \* the audio goroutine of processChunk
    vi,             \* the video goroutine of processChunk (and transcribeVideoLLM)
    errorChannel,   \* the buffered error channel
    chanClosed,     \* close(errorChannel) was called
    logged,         \* errors main has drained and logged
    llm,            \* sentLlmPrompt's frame
    ocr             \* transcribeFramesTesseractCLI's frame

vars == <<numVideos, videoPaths, fileOf, chunkDuration, numCPU, mpc, videoIndex, created, outFiles,
          chunks, ci, cloudSegs, jobOutcome, refineCalls, temp, cv, au, vi,
          errorChannel, chanClosed, logged, llm, ocr>>

inputVars == <<numVideos, videoPaths, fileOf, chunkDuration, numCPU>>
mainVars == <<mpc, videoIndex, chunks, ci, cloudSegs, jobOutcome, refineCalls>>
fileVars == <<created, outFiles>>
outVars == <<created, outFiles, temp>>
chanVars == <<errorChannel, chanClosed, logged>>
taskVars == <<au, vi>>

\* ---------------------------------------------------------------- helpers
Min(a, b) == IF a < b THEN a ELSE b

Kinds == {"combined", "audio", "video"}

Jobs == 1..MaxVideos

NoText == << >>

\* ceil(a/b) for a >= 0, b > 0
Ceil(a, b) == (a + b - 1) \div b

EmptyFiles == [j \in Jobs |-> [k \in Kinds |-> << >>]]

\* ------------------------------------------------------------ file names
\* A path is a directory, a stem and an extension; a stem is a sequence of
\* tokens, as a file name is a sequence of characters.
InputPath(dir, stem, ext) == [dir |-> dir, stem |-> stem, ext |-> ext]

\* the j-th of a list of videos that all have different stems
DefaultPath(j) == InputPath("in", <<"v" \o ToString(j)>>, "mp4")

DefaultPaths(n) == [j \in 1..n |-> DefaultPath(j)]

\* src/main.go:519: strings.TrimSuffix(filepath.Base(videoPath),
\* filepath.Ext(videoPath)): the directory and the extension are dropped
BaseNameOf(path) == path.stem

\* src/main.go:520-522: "_output.txt", "_audio_output.txt" and
\* "_video_output.txt"
Suffix(kind) ==
    CASE kind = "audio" -> <<"_audio", "_output.txt">>
      [] kind = "video" -> <<"_video", "_output.txt">>
      [] OTHER -> <<"_output.txt">>

\* src/main.go:520-522: the name, relative to the working directory, of the
\* output file of kind k of job j
OutputName(j, k) == BaseNameOf(videoPaths[j]) \o Suffix(k)

KindRank(k) == CASE k = "combined" -> 0 [] k = "audio" -> 1 [] OTHER -> 2

\* outFiles keeps the content of a file under the first <<job, kind>> that
\* has the file's name: two handles on one name are handles on one file
FirstNamed(n, paths, j, k) ==
    LET name(p) == BaseNameOf(paths[p[1]]) \o Suffix(p[2])
        same == {p \in (1..n) \X Kinds : name(p) = name(<<j, k>>)}
        rank(p) == 3 * p[1] + KindRank(p[2])
    IN  CHOOSE p \in same : \A q \in same : rank(p) <= rank(q)

\* the file every output name of a run of n videos stands for
FilesOf(n, paths) ==
    [p \in Jobs \X Kinds |->
        IF p[1] <= n THEN FirstNamed(n, paths, p[1], p[2]) ELSE p]

Slot(j, k) == fileOf[<<j, k>>]

\* the content of the output file of kind k of job j
FileContent(j, k) == outFiles[Slot(j, k)[1]][Slot(j, k)[2]]

\* src/main.go:427,445,70,596-598: a write through the handle of kind k of
\* job j adds lines to the file of that name
WriteTo(files, j, k, lines) ==
    LET s == Slot(j, k) IN [files EXCEPT ![s[1]][s[2]] = @ \o lines]

\* src/main.go:527,534,541: os.Create on the names of job j's kinds ks
\* truncates the files of those names
CreateAll(files, j, ks) ==
    [i \in Jobs |-> [q \in Kinds |->
        IF \E k \in ks : Slot(j, k) = <<i, q>> THEN << >> ELSE files[i][q]]]

\* src/main.go:596-598: a line is written through each of the handles of
\* job j's kinds ks
AppendAll(files, j, ks, line) ==
    [i \in Jobs |-> [q \in Kinds |->
        IF \E k \in ks : Slot(j, k) = <<i, q>>
        THEN Append(files[i][q], line) ELSE files[i][q]]]

\* ------------------------------------------------------------ chunkVideo
\* a chunk that does not carry its number
ChunkDataUnnumbered(i, vIdx) ==
    [ChunkNum |-> 0, VideoIndex |-> vIdx, Err |-> "nil",
     BaseName |-> BaseNameOf(videoPaths[vIdx]),
     VideoPath |-> <<"mp4", 0, vIdx>>, AudioPath |-> <<"wav", 0, vIdx>>]

\* src/main.go:28-35,127-128,146: the chunk chunkVideo appends for i: its
\* number, the job's index and base name, and the two paths
\* chunk_<i>_video_<vIdx>.mp4 and .wav in the job's temp directory
ChunkData(i, vIdx) ==
    [ChunkNum |-> i, VideoIndex |-> vIdx, Err |-> "nil",
     BaseName |-> BaseNameOf(videoPaths[vIdx]),
     VideoPath |-> <<"mp4", i, vIdx>>, AudioPath |-> <<"wav", i, vIdx>>]

\* src/main.go:118-121: d is the duration in ticks, c the chunk duration in
\* seconds.  int(duration / float64(c)) truncates the quotient; int(duration)
\* truncates the duration to whole seconds before the remainder is taken.
NumChunks(d, c) ==
    (d \div (c * Res)) + (IF ((d \div Res) % c) # 0 THEN 1 ELSE 0)

\* src/main.go:101: the directory os.MkdirTemp("", "video_chunks") makes
\* for the chunks of video vIdx
ChunkDir(vIdx) == <<"dir", 0, vIdx>>

CvIdle ==
    [st |-> "idle", vIdx |-> 0, duration |-> 0, numChunks |-> 0, i |-> 0,
     chunks |-> << >>, requests |-> << >>, err |-> "nil"]

\* the call chunkVideo(videoPath, chunkDuration, vIdx, baseName)
CvCall(vIdx) == [CvIdle EXCEPT !.st = "probe", !.vIdx = vIdx]

\* src/main.go:96-121: LookPath, MkdirTemp, ffprobe and ParseFloat; any of
\* them failing returns (nil, err), the last two after os.RemoveAll(tempDir);
\* otherwise the temp directory stays and the chunk count is computed.
ChunkProbe ==
    /\ cv.st = "probe"
    /\ \/ \E d \in 1..MaxDurationTicks :
             /\ cv' = [cv EXCEPT !.st = "loop", !.duration = d,
                                 !.numChunks = NumChunks(d, chunkDuration)]
             /\ temp' = temp \cup {ChunkDir(cv.vIdx)}
       \/ /\ cv' = [cv EXCEPT !.st = "returned", !.err = "probe"]
          /\ temp' = temp
    /\ UNCHANGED <<inputVars, mainVars, fileVars, chanVars, taskVars, llm, ocr>>

\* src/main.go:125-149: one iteration of the extraction loop: ffmpeg writes
\* the chunk's video and audio file into the temp directory.  A failing
\* ffmpeg returns (nil, err): the chunks extracted so far are dropped from
\* the result, and nothing is removed.
ChunkExtract ==
    /\ cv.st = "loop"
    /\ cv.i < cv.numChunks
    /\ LET req == [start |-> cv.i * chunkDuration, len |-> chunkDuration]
           chunk == ChunkData(cv.i, cv.vIdx) IN
       \/ /\ cv' = [cv EXCEPT !.i = cv.i + 1,
                              !.requests = Append(cv.requests, req),
                              !.chunks = Append(cv.chunks, chunk)]
          /\ temp' = temp \cup {chunk.VideoPath, chunk.AudioPath}
       \/ /\ cv' = [cv EXCEPT !.st = "returned", !.err = "extract",
                              !.requests = Append(cv.requests, req),
                              !.chunks = << >>]
          /\ temp' = temp
    /\ UNCHANGED <<inputVars, mainVars, fileVars, chanVars, taskVars, llm, ocr>>

\* src/main.go:125,151: the loop ends, return chunks, nil
ChunkReturn ==
    /\ cv.st = "loop"
    /\ cv.i >= cv.numChunks
    /\ cv' = [cv EXCEPT !.st = "returned"]
    /\ UNCHANGED <<inputVars, mainVars, outVars, chanVars, taskVars, llm, ocr>>

\* --------------------------------------------------------- sentLlmPrompt
\* A response part: genai.Text (isText) or another kind of part.
TextPart(t) == [isText |-> TRUE, text |-> t]

BlobPart == [isText |-> FALSE, text |-> <<"blob">>]

\* A candidate: Content may be nil (hasContent = FALSE).
Candidate(parts) == [hasContent |-> TRUE, parts |-> parts]

NilCandidate == [hasContent |-> FALSE, parts |-> << >>]

RECURSIVE Flatten(_)
Flatten(ss) == IF ss = << >> THEN << >> ELSE Head(ss) \o Flatten(Tail(ss))

\* a loop that stops after the first candidate
TextsOfFirstCandidate(resp) ==
    IF resp = << >> \/ ~resp[1].hasContent THEN << >>
    ELSE LET texts == SelectSeq(resp[1].parts, LAMBDA p : p.isText)
         IN  [i \in 1..Len(texts) |-> texts[i].text]

\* src/main.go:64-67: the text parts of a response, in response order
TextsOf(resp) ==
    LET withContent == SelectSeq(resp, LAMBDA c : c.hasContent)
        parts == Flatten([i \in 1..Len(withContent) |-> withContent[i].parts])
        texts == SelectSeq(parts, LAMBDA p : p.isText)
    IN  [i \in 1..Len(texts) |-> texts[i].text]

\* one line of an output file
Line(kind, v, c, text) == [kind |-> kind, v |-> v, c |-> c, text |-> text]

\* src/main.go:69-73: Fprintln of each text part; a failed write is only logged
RECURSIVE WriteParts(_, _, _)
WriteParts(texts, i, failed) ==
    IF i > Len(texts) THEN << >>
    ELSE (IF i \in failed THEN << >> ELSE <<Line("llm", 0, 0, texts[i])>>)
         \o WriteParts(texts, i + 1, failed)

LlmIdle ==
    [st |-> "idle", attempt |-> 0, calls |-> 0, sleeps |-> 0, slept |-> 0,
     dest |-> 0, succeeded |-> FALSE, wfailed |-> 0, result |-> NoText,
     resp |-> << >>, prompt |-> << >>]

\* the call sentLlmPrompt(model, prompt, ctx, file, videoIndex); dest is the
\* job whose combined file is passed, 0 for a nil file
LlmCall(dest) == [LlmIdle EXCEPT !.st = "running", !.dest = dest]

\* src/main.go:372-375: the prompt of transcribeVideoLLM: the task
\* description and the uploaded file
VideoPrompt == <<"task", "fileData">>

\* a refinement prompt that leaves out the video transcript
CombinedPromptAudioOnly(audioContent, videoContent) ==
    <<"instructions", audioContent, << >>>>

\* src/main.go:580-592: the refinement prompt: the instructions, the whole
\* audio transcript and the whole video transcript
CombinedPrompt(audioContent, videoContent) ==
    <<"instructions", audioContent, videoContent>>

\* a loop counter that is not advanced
NextAttemptStuck(attempt) == attempt

\* src/main.go:56: attempt++
NextAttempt(attempt) == attempt + 1

\* src/main.go:83: attempt < maxRetries
AttemptsLeft(attempt) == attempt < maxRetries

\* a delay that grows with the attempt
DelayBackoff(attempt) == retryDelay * (attempt + 1)

\* src/main.go:85: time.Sleep(retryDelay), the same after every attempt
Delay(attempt) == retryDelay

\* src/main.go:59,82-91: GenerateContent returns an error: sleep and go
\* round the loop again, or return "" when the attempts are used up;
\* slept is the time spent in time.Sleep
GenerateErr ==
    /\ llm.st = "running"
    /\ LET a == NextAttempt(llm.attempt) IN
       IF AttemptsLeft(llm.attempt) /\ a <= maxRetries
       THEN llm' = [llm EXCEPT !.calls = @ + 1, !.sleeps = @ + 1,
                               !.slept = @ + Delay(llm.attempt),
                               !.attempt = a]
       ELSE llm' = [llm EXCEPT !.calls = @ + 1, !.st = "returned",
                               !.sleeps = @ + (IF AttemptsLeft(llm.attempt)
                                               THEN 1 ELSE 0),
                               !.slept = @ + (IF AttemptsLeft(llm.attempt)
                                              THEN Delay(llm.attempt) ELSE 0),
                               !.result = NoText]
    /\ UNCHANGED <<inputVars, mainVars, outVars, chanVars, taskVars, cv, ocr>>

\* src/main.go:59-80: GenerateContent succeeds with response resp; the
\* writes of the text parts numbered in failed return an error
GenerateOk(resp, failed) ==
    /\ llm.st = "running"
    /\ LET texts == TextsOf(resp) IN
       /\ failed \subseteq 1..Len(texts)
       /\ llm.dest = 0 => failed = {}
       /\ llm' = [llm EXCEPT !.calls = @ + 1, !.st = "returned",
                             !.succeeded = TRUE,
                             !.resp = resp,
                             !.wfailed = Cardinality(failed),
                             !.result = Flatten(texts)]
       /\ outFiles' =
            IF llm.dest = 0 THEN outFiles
            ELSE WriteTo(outFiles, llm.dest, "combined",
                         WriteParts(texts, 1, failed))
    /\ UNCHANGED <<inputVars, mainVars, created, temp, chanVars, taskVars, cv, ocr>>

\* the responses the cloud model gives when sentLlmPrompt runs alone
PromptCandidates ==
    {NilCandidate, Candidate(<< >>), Candidate(<<TextPart(<<"a">>)>>),
     Candidate(<<TextPart(<<"a">>), TextPart(<<"b">>)>>),
     Candidate(<<BlobPart, TextPart(<<"b">>)>>),
     Candidate(<<TextPart(NoText)>>)}

PromptResponses ==
    {<< >>} \cup {<<c>> : c \in PromptCandidates}
            \cup {<<c, d>> : c \in PromptCandidates,
                             d \in {NilCandidate, Candidate(<<TextPart(<<"c">>)>>)}}

\* the responses the cloud model gives inside the whole program
PipelineResponses == {<< >>, <<Candidate(<<TextPart(<<"llm">>)>>)>>}

\* ------------------------------------------ transcribeFramesTesseractCLI
\* the text tesseract prints for frame f
FrameText(f) == <<"frame" \o ToString(f)>>

Newline == <<"\n">>

\* a pool sized to the CPU count alone
PoolSizeUncapped(cpus) == cpus

\* src/main.go:231-234: runtime.NumCPU(), capped at 8
PoolSize(cpus) == Min(cpus, poolCap)

\* src/main.go:231-235: the capacity of the guard channel
NumWorkers == PoolSize(numCPU)

\* a result channel with no buffer
ResultsCapUnbuffered(n) == 0

\* src/main.go:225-228: the capacity of the frameResults channel
ResultsCap(n) == n

\* a send on frameResults blocks while its buffer is full
CanReport == Len(ocr.frameResults) < ResultsCap(ocr.n)

OcrIdle ==
    [st |-> "idle", n |-> 0, next |-> 1, guard |-> 0, wg |-> 0,
     w |-> << >>, frameResults |-> << >>, closed |-> FALSE, received |-> 0,
     combined |-> NoText, temps |-> {}, made |-> {}, ok |-> {}, err |-> "nil"]

\* the call transcribeFramesTesseractCLI(framePaths) with n frame paths;
\* ok collects the frames tesseract has recognized during the call
OcrCall(n) ==
    [OcrIdle EXCEPT !.st = "dispatch", !.n = n, !.w = [f \in 1..n |-> "none"]]

\* a guard channel that never blocks
SlotAlwaysFree(guard) == TRUE

\* src/main.go:235,240: the send on guard goes through while fewer than
\* NumWorkers workers hold a slot
SlotFree(guard) == guard < NumWorkers

\* src/main.go:237-241: wg.Add(1), acquire a slot of guard, start the worker
Dispatch ==
    /\ ocr.st = "dispatch"
    /\ ocr.next <= ocr.n
    /\ SlotFree(ocr.guard)
    /\ ocr' = [ocr EXCEPT !.wg = @ + 1, !.guard = @ + 1,
                          !.w[ocr.next] = "start", !.next = @ + 1]
    /\ UNCHANGED <<inputVars, mainVars, outVars, chanVars, taskVars, cv, llm>>

\* src/main.go:237,327: every frame was dispatched, the caller reaches wg.Wait
DispatchEnd ==
    /\ ocr.st = "dispatch"
    /\ ocr.next > ocr.n
    /\ ocr' = [ocr EXCEPT !.st = "wait"]
    /\ UNCHANGED <<inputVars, mainVars, outVars, chanVars, taskVars, cv, llm>>

FrameResult(text, err) == [Text |-> text, Error |-> err]

\* src/main.go:246-286: open, decode, re-encode, create the temp file; a
\* failure sends an error result and returns
WorkerPrepare(f, outcome) ==
    /\ ocr.st \in {"dispatch", "wait"}
    /\ f \in 1..ocr.n
    /\ ocr.w[f] = "start"
    /\ IF outcome = "ok"
       THEN ocr' = [ocr EXCEPT !.w[f] = "temp", !.temps = @ \cup {f},
                               !.made = @ \cup {f}]
       ELSE /\ CanReport
            /\ ocr' = [ocr EXCEPT !.w[f] = "exit",
                          !.frameResults = Append(@, FrameResult(NoText, outcome))]
    /\ UNCHANGED <<inputVars, mainVars, outVars, chanVars, taskVars, cv, llm>>

\* src/main.go:288-322: write and close the temp file, run tesseract on it;
\* a failure sends an error result, success sends the recognized text
WorkerRecognize(f, outcome) ==
    /\ ocr.st \in {"dispatch", "wait"}
    /\ f \in 1..ocr.n
    /\ ocr.w[f] = "temp"
    /\ CanReport
    /\ ocr' = [ocr EXCEPT !.w[f] = "exit",
                  !.ok = IF outcome = "ok" THEN @ \cup {f} ELSE @,
                  !.frameResults =
                      Append(@, IF outcome = "ok"
                                THEN FrameResult(FrameText(f), "nil")
                                ELSE FrameResult(NoText, outcome))]
    /\ UNCHANGED <<inputVars, mainVars, outVars, chanVars, taskVars, cv, llm>>

\* a worker without the deferred os.Remove
DeferredRemoveNone(temps, f) == temps

\* src/main.go:286: the deferred os.Remove(tempFilePath) of worker f, which
\* is registered only when the temp file was created
DeferredRemove(temps, f) == temps \ {f}

\* src/main.go:243,286: the first deferred calls of a returning worker, last
\* registered first: remove the temp file (when it was created), then
\* receive from guard, which releases the slot
WorkerRelease(f) ==
    /\ ocr.st \in {"dispatch", "wait"}
    /\ f \in 1..ocr.n
    /\ ocr.w[f] = "exit"
    /\ ocr' = [ocr EXCEPT !.w[f] = "released",
                          !.temps = DeferredRemove(@, f),
                          !.guard = @ - 1]
    /\ UNCHANGED <<inputVars, mainVars, outVars, chanVars, taskVars, cv, llm>>

\* src/main.go:242: the deferred wg.Done, the worker's last call
WorkerDone(f) ==
    /\ ocr.st \in {"dispatch", "wait"}
    /\ f \in 1..ocr.n
    /\ ocr.w[f] = "released"
    /\ ocr' = [ocr EXCEPT !.w[f] = "done", !.wg = @ - 1]
    /\ UNCHANGED <<inputVars, mainVars, outVars, chanVars, taskVars, cv, llm>>

\* a barrier that does not wait
AllDoneEarly(wg) == TRUE

\* src/main.go:327: wg.Wait returns when the counter is zero
AllDone(wg) == wg = 0

\* src/main.go:327-328: wg.Wait returns, close(frameResults)
WaitWorkers ==
    /\ ocr.st = "wait"
    /\ AllDone(ocr.wg)
    /\ ocr' = [ocr EXCEPT !.st = "collect", !.closed = TRUE]
    /\ UNCHANGED <<inputVars, mainVars, outVars, chanVars, taskVars, cv, llm>>

\* a collecting loop that does not skip the failed frames
CollectedAll(result) == result.Text \o Newline

\* src/main.go:332-337: what one received result adds to the transcript
Collected(result) ==
    IF result.Error # "nil" THEN NoText ELSE result.Text \o Newline

\* src/main.go:331-338: receive the next result from the closed channel
Collect ==
    /\ ocr.st = "collect"
    /\ ocr.frameResults # << >>
    /\ ocr' = [ocr EXCEPT !.frameResults = Tail(@),
                          !.received = @ + 1,
                          !.combined = @ \o Collected(Head(ocr.frameResults))]
    /\ UNCHANGED <<inputVars, mainVars, outVars, chanVars, taskVars, cv, llm>>

\* src/main.go:331,340: the channel is drained, return the transcript, nil
OcrReturn ==
    /\ ocr.st = "collect"
    /\ ocr.frameResults = << >>
    /\ ocr' = [ocr EXCEPT !.st = "returned", !.err = "nil"]
    /\ UNCHANGED <<inputVars, mainVars, outVars, chanVars, taskVars, cv, llm>>

PrepareOutcomes == {"ok", "open", "decode", "encode", "createTemp"}

RecognizeOutcomes == {"ok", "write", "close", "tesseract"}

\* ------------------------------------------------------------ processChunk
TaskIdle == [pc |-> "idle", transcript |-> NoText, err |-> "nil"]

VideoIdle ==
    [pc |-> "idle", transcript |-> NoText, err |-> "nil", uploaded |-> FALSE,
     prompted |-> FALSE, fallback |-> "none", frameDir |-> "none",
     deleted |-> 0, deleteErr |-> FALSE]

\* the chunk processChunk is working on
Chunk == chunks[ci]

\* a value sent on the error channel
ErrorOf(kind) == [kind |-> kind, v |-> Chunk.VideoIndex, c |-> Chunk.ChunkNum]

\* src/main.go:426,444: "Video Index: %d, Chunk: %d\n%s\n"
Record(text) == Line("record", Chunk.VideoIndex, Chunk.ChunkNum, text)

AudioPlaceholder == <<"Audio transcription failed">>

VideoPlaceholder == <<"Video transcription failed">>

WhisperText == <<"whisper">>

\* a send on the buffered error channel blocks while the buffer is full
CanSend == Len(errorChannel) < errorChannelCap

\* src/main.go:420-421,155-184: whisper-cli has run
AudioWhisper(ok) ==
    /\ au.pc = "whisper"
    /\ au' = IF ok
             THEN [au EXCEPT !.pc = "write", !.transcript = WhisperText]
             ELSE [au EXCEPT !.pc = "sendErr", !.err = "whisper"]
    /\ UNCHANGED <<inputVars, mainVars, outVars, chanVars, vi, cv, llm, ocr>>

\* an audio task that reports its error and keeps the empty transcript
AudioFailedTextEmpty == NoText

\* src/main.go:423: the text recorded for a failed audio transcription
AudioFailedText == AudioPlaceholder

\* src/main.go:422-423: report the error, substitute the placeholder
AudioSendErr ==
    /\ au.pc = "sendErr"
    /\ CanSend
    /\ errorChannel' = Append(errorChannel, ErrorOf("audio"))
    /\ au' = [au EXCEPT !.pc = "write", !.transcript = AudioFailedText]
    /\ UNCHANGED <<inputVars, mainVars, outVars, chanClosed, logged, vi, cv,
                   llm, ocr>>

\* an audio goroutine that is handed the video file
AudioStreamShared == "video"

\* src/main.go:426: the file the audio goroutine writes to
AudioStream == "audio"

\* a video goroutine that is handed the combined file
VideoStreamCombined == "combined"

\* src/main.go:444: the file the video goroutine writes to
VideoStream == "video"

\* src/main.go:426-427: Fprintf of the record to the audio file
AudioWrite(ok) ==
    /\ au.pc = "write"
    /\ IF ok
       THEN /\ outFiles' = WriteTo(outFiles, Chunk.VideoIndex, AudioStream,
                                    <<Record(au.transcript)>>)
            /\ au' = [au EXCEPT !.pc = "remove"]
       ELSE /\ outFiles' = outFiles
            /\ au' = [au EXCEPT !.pc = "sendWriteErr"]
    /\ UNCHANGED <<inputVars, mainVars, created, temp, chanVars, vi, cv, llm, ocr>>

\* src/main.go:428: report the failed write
AudioSendWriteErr ==
    /\ au.pc = "sendWriteErr"
    /\ CanSend
    /\ errorChannel' = Append(errorChannel, ErrorOf("audioWrite"))
    /\ au' = [au EXCEPT !.pc = "remove"]
    /\ UNCHANGED <<inputVars, mainVars, outVars, chanClosed, logged, vi, cv,
                   llm, ocr>>

\* an audio goroutine that removes the chunk's video file
AudioArtifactWrong(chunk) == chunk.VideoPath

\* src/main.go:431: the file the audio goroutine removes
AudioArtifact(chunk) == chunk.AudioPath

\* src/main.go:419,431: os.Remove(chunk.AudioPath), then the deferred wg.Done
AudioRemove ==
    /\ au.pc = "remove"
    /\ au' = [au EXCEPT !.pc = "done"]
    /\ temp' = temp \ {AudioArtifact(Chunk)}
    /\ UNCHANGED <<inputVars, mainVars, fileVars, chanVars, vi, cv, llm, ocr>>

\* ------------------------------------- transcribeVideoLLM, video goroutine
\* a goroutine that writes whatever was returned, error or not
AfterTranscribeNoReport(err) == "write"

\* src/main.go:439: where the video goroutine goes when transcribeVideoLLM
\* returns
AfterTranscribe(err) == IF err # "nil" THEN "sendErr" ELSE "write"

\* a return that runs no deferred call
ReturningNoDelete(uploaded, err) == AfterTranscribe(err)

\* src/main.go:368: the deferred DeleteFile runs on every return after it
\* was registered, and is not registered when the upload failed
Returning(uploaded, err) ==
    IF uploaded THEN "deleteFile" ELSE AfterTranscribe(err)

\* a task that prompts right after the upload
AfterUploadNoWait(ok) == IF ok THEN "prompt" ELSE "frames"

\* src/main.go:346,366-367: a failed upload goes to the fallback, a
\* successful one to the activation sleep
AfterUpload(ok) == IF ok THEN "activate" ELSE "frames"

\* src/main.go:345-348: UploadFileFromPath
VideoUpload(ok) ==
    /\ vi.pc = "upload"
    /\ vi' = IF ok
             THEN [vi EXCEPT !.pc = AfterUpload(ok), !.uploaded = TRUE]
             ELSE [vi EXCEPT !.pc = AfterUpload(ok), !.fallback = "upload"]
    /\ UNCHANGED <<inputVars, mainVars, outVars, chanVars, au, cv, llm, ocr>>

\* src/main.go:366-376: the 30 s activation sleep, the deferred DeleteFile is
\* registered, sentLlmPrompt is called with a nil file
VideoActivate ==
    /\ vi.pc = "activate"
    /\ llm.st = "idle"
    /\ vi' = [vi EXCEPT !.pc = "prompt", !.prompted = TRUE]
    /\ llm' = [LlmCall(0) EXCEPT !.prompt = VideoPrompt]
    /\ UNCHANGED <<inputVars, mainVars, outVars, chanVars, au, cv, ocr>>

\* a task that takes the fallback whatever the prompt returned
NeedsFallbackAlways(text) == TRUE

\* src/main.go:378: videoTranscript == ""
NeedsFallback(text) == text = NoText

\* src/main.go:376-398: sentLlmPrompt has returned.  The returned text stays
\* readable in llm.result until processChunk returns; cloudSegs counts the
\* chunks of the job for which the cloud model returned a text.
VideoPrompted ==
    /\ vi.pc = "prompt"
    /\ llm.st = "returned"
    /\ vi' = IF NeedsFallback(llm.result)
             THEN [vi EXCEPT !.pc = "frames", !.fallback = "empty"]
             ELSE [vi EXCEPT !.pc = Returning(vi.uploaded, "nil"),
                             !.transcript = llm.result]
    /\ llm' = [LlmIdle EXCEPT !.result = llm.result]
    /\ cloudSegs' = IF llm.result # NoText THEN cloudSegs + 1 ELSE cloudSegs
    /\ UNCHANGED <<inputVars, mpc, videoIndex, chunks, ci, jobOutcome, refineCalls,
                   outVars, chanVars, au, cv, ocr>>

\* a cleanup that runs whatever the number of frames
HasFramesAlways(n) == TRUE

\* src/main.go:359,387: len(framePaths) > 0
HasFrames(n) == n > 0

\* src/main.go:188: the directory os.MkdirTemp makes for the frames of a chunk
FrameDir(chunk) == <<"frames", chunk.ChunkNum, chunk.VideoIndex>>

\* an extractFrames that returns its error without cleaning up
AfterExtractKeepsDir(temps, dir, outcome) ==
    IF outcome = "mkdir" THEN temps ELSE temps \cup {dir}

\* src/main.go:188-204: the temporary files when extractFrames returns:
\* os.MkdirTemp failed and made nothing; or ffmpeg failed and
\* os.RemoveAll(tempDir) took the directory away again; or the directory
\* stays, with the frames in it
AfterExtract(temps, dir, outcome) ==
    CASE outcome = "mkdir" -> temps
      [] outcome = "ffmpeg" -> (temps \cup {dir}) \ {dir}
      [] OTHER -> temps \cup {dir}

\* src/main.go:349-353,381-385,187-219: extractFrames; on success with n
\* frame paths transcribeFramesTesseractCLI is called
VideoExtractFrames(outcome, n) ==
    /\ vi.pc = "frames"
    /\ ocr.st = "idle"
    /\ IF outcome = "ok"
       THEN /\ vi' = [vi EXCEPT !.pc = "ocr", !.frameDir = "exists"]
            /\ ocr' = OcrCall(n)
       ELSE /\ vi' = [vi EXCEPT !.pc = Returning(vi.uploaded, "frames"),
                                !.err = "frames"]
            /\ ocr' = ocr
    /\ temp' = AfterExtract(temp, FrameDir(Chunk), outcome)
    /\ UNCHANGED <<inputVars, mainVars, fileVars, chanVars, au, cv, llm>>

\* a fallback whose text is returned together with an error
FallbackResultAsError(text) == [transcript |-> NoText, err |-> "fallback"]

\* src/main.go:362,393: return transcript, nil
FallbackResult(text) == [transcript |-> text, err |-> "nil"]

\* src/main.go:353-362,385-393: the ensemble has returned; the frame
\* directory is removed when there is a first frame path to name it.  The
\* ensemble's frame stays readable until processChunk returns.
VideoOcrReturned ==
    /\ vi.pc = "ocr"
    /\ ocr.st = "returned"
    /\ LET removes == IF ocr.err # "nil"
                      THEN HasFrames(ocr.n) /\ vi.uploaded
                      ELSE HasFrames(ocr.n) IN
       /\ vi' = IF ocr.err # "nil"
                THEN [vi EXCEPT !.pc = Returning(vi.uploaded, "ocr"),
                                !.err = "ocr",
                                !.frameDir = IF removes THEN "removed" ELSE @]
                ELSE LET r == FallbackResult(ocr.combined) IN
                     [vi EXCEPT !.pc = Returning(vi.uploaded, r.err),
                                !.transcript = r.transcript,
                                !.err = r.err,
                                !.frameDir = IF removes THEN "removed" ELSE @]
       /\ temp' = IF removes THEN temp \ {FrameDir(Chunk)} ELSE temp
    /\ ocr' = [ocr EXCEPT !.st = "idle"]
    /\ UNCHANGED <<inputVars, mainVars, fileVars, chanVars, au, cv, llm>>

\* src/main.go:368: the deferred client.DeleteFile; its error is dropped
VideoDeleteFile(ok) ==
    /\ vi.pc = "deleteFile"
    /\ vi' = [vi EXCEPT !.pc = AfterTranscribe(vi.err), !.deleted = @ + 1,
                        !.deleteErr = ~ok]
    /\ UNCHANGED <<inputVars, mainVars, outVars, chanVars, au, cv, llm, ocr>>

\* src/main.go:440-441: report the error, substitute the placeholder
VideoSendErr ==
    /\ vi.pc = "sendErr"
    /\ CanSend
    /\ errorChannel' = Append(errorChannel, ErrorOf("video"))
    /\ vi' = [vi EXCEPT !.pc = "write", !.transcript = VideoPlaceholder]
    /\ UNCHANGED <<inputVars, mainVars, outVars, chanClosed, logged, au, cv,
                   llm, ocr>>

\* src/main.go:444-445: Fprintf of the record to the video file
VideoWrite(ok) ==
    /\ vi.pc = "write"
    /\ IF ok
       THEN /\ outFiles' = WriteTo(outFiles, Chunk.VideoIndex, VideoStream,
                                    <<Record(vi.transcript)>>)
            /\ vi' = [vi EXCEPT !.pc = "remove"]
       ELSE /\ outFiles' = outFiles
            /\ vi' = [vi EXCEPT !.pc = "sendWriteErr"]
    /\ UNCHANGED <<inputVars, mainVars, created, temp, chanVars, au, cv, llm, ocr>>

\* src/main.go:446: report the failed write
VideoSendWriteErr ==
    /\ vi.pc = "sendWriteErr"
    /\ CanSend
    /\ errorChannel' = Append(errorChannel, ErrorOf("videoWrite"))
    /\ vi' = [vi EXCEPT !.pc = "remove"]
    /\ UNCHANGED <<inputVars, mainVars, outVars, chanClosed, logged, au, cv,
                   llm, ocr>>

\* src/main.go:437,449: os.Remove(chunk.VideoPath), then the deferred wg.Done
VideoRemove ==
    /\ vi.pc = "remove"
    /\ vi' = [vi EXCEPT !.pc = "done"]
    /\ temp' = temp \ {Chunk.VideoPath}
    /\ UNCHANGED <<inputVars, mainVars, fileVars, chanVars, au, cv, llm, ocr>>

FrameOutcomes == {"ok", "mkdir", "ffmpeg"}

\* ------------------------------------------------------------------ main
\* the job main's loop is working on: chunkVideo is given videoIndex+1
Job == videoIndex + 1

\* a loop that passes over a video
NextVideoSkips(i) == i + 2

\* src/main.go:518: the range loop goes on with the next video
NextVideo(i) == i + 1

\* src/main.go:518: where `continue`, or the end of the loop body, leads
LoopNext == IF videoIndex + 1 < numVideos THEN "create" ELSE "close"

\* src/main.go:529,536,543: log.Fatalf ends the process with status 1; the
\* continue that follows it is never reached
CreateFailed == "fatal"

\* the files os.Create is called on before the one of kind k
Before(k) ==
    CASE k = "combined" -> {}
      [] k = "audio" -> {"combined"}
      [] k = "video" -> {"combined", "audio"}
      [] OTHER -> Kinds

\* src/main.go:532,539,546,607: the files that are open: every os.Create is
\* followed by a deferred Close, and a deferred call runs when main returns,
\* not when the iteration ends; log.Fatalf ends the process and with it
\* every open file
OpenStreams == IF mpc \in {"done", "fatal"} THEN {} ELSE created

\* src/main.go:513-516: main starts its loop, or returns when no video was found
MainStart ==
    /\ mpc = "start"
    /\ mpc' = IF numVideos = 0 THEN "done" ELSE "create"
    /\ UNCHANGED <<inputVars, videoIndex, chunks, ci, cloudSegs, jobOutcome, refineCalls, outVars,
                   chanVars, taskVars, cv, llm, ocr>>

\* src/main.go:527-550: os.Create of the combined, audio and video files in
\* that order; failed names the one that fails ("ok": none); then chunkVideo
\* is called
CreateFiles(failed) ==
    /\ mpc = "create"
    /\ created' = created \cup {<<Job, k>> : k \in Before(failed)}
    /\ outFiles' = CreateAll(outFiles, Job, Before(failed))
    /\ IF failed = "ok"
       THEN /\ mpc' = "chunk"
            /\ cv' = CvCall(Job)
            /\ jobOutcome' = [jobOutcome EXCEPT ![Job] = "running"]
            /\ videoIndex' = videoIndex
       ELSE /\ mpc' = CreateFailed
            /\ cv' = cv
            /\ jobOutcome' = [jobOutcome EXCEPT ![Job] = "createFailed"]
            /\ videoIndex' = IF CreateFailed = "fatal" THEN videoIndex
                             ELSE NextVideo(videoIndex)
    /\ cloudSegs' = 0
    /\ UNCHANGED <<inputVars, chunks, ci, refineCalls, temp, chanVars, taskVars,
                   llm, ocr>>

\* a main that goes on with whatever chunkVideo returned
ChunkErrIgnored(err) == FALSE

\* src/main.go:551: err != nil
ChunkErrAborts(err) == err # "nil"

\* src/main.go:550-560: chunkVideo has returned
ChunkDone ==
    /\ mpc = "chunk"
    /\ cv.st = "returned"
    /\ cv' = CvIdle
    /\ jobOutcome' = [jobOutcome EXCEPT ![Job] =
                         IF cv.err # "nil" THEN "chunkFailed" ELSE @]
    /\ IF ChunkErrAborts(cv.err)
       THEN /\ mpc' = LoopNext
            /\ videoIndex' = NextVideo(videoIndex)
            /\ chunks' = << >>
            /\ ci' = 1
       ELSE /\ mpc' = "process"
            /\ videoIndex' = videoIndex
            /\ chunks' = cv.chunks
            /\ ci' = 1
    /\ UNCHANGED <<inputVars, cloudSegs, refineCalls, outVars, chanVars,
                   taskVars, llm, ocr>>

\* a loop that hands the same chunk to processChunk again
NextChunkRepeats(i) == i

\* src/main.go:560: the range loop goes on with the next chunk
NextChunk(i) == i + 1

\* src/main.go:560-561,402-450: processChunk is called on the next chunk and
\* starts its two goroutines (a chunk carrying an error is reported instead)
ProcessChunk ==
    /\ mpc = "process"
    /\ ci <= Len(chunks)
    /\ IF Chunk.Err # "nil"
       THEN /\ CanSend
            /\ errorChannel' = Append(errorChannel, ErrorOf("chunk"))
            /\ ci' = NextChunk(ci)
            /\ UNCHANGED <<mpc, au, vi>>
       ELSE /\ mpc' = "wgWait"
            /\ au' = [TaskIdle EXCEPT !.pc = "whisper"]
            /\ vi' = [VideoIdle EXCEPT !.pc = "upload"]
            /\ UNCHANGED <<errorChannel, ci>>
    /\ UNCHANGED <<inputVars, videoIndex, chunks, cloudSegs, jobOutcome, refineCalls, outVars,
                   chanClosed, logged, cv, llm, ocr>>

\* a processChunk that does not wait for its goroutines
BothDoneNoWait(a, v) == TRUE

\* src/main.go:414,419,437,452: both goroutines have called wg.Done
BothDone(a, v) == a.pc = "done" /\ v.pc = "done"

\* src/main.go:452-454: wg.Wait returns when both goroutines are done, and
\* processChunk returns
WgWait ==
    /\ mpc = "wgWait"
    /\ BothDone(au, vi)
    /\ mpc' = "process"
    /\ ci' = NextChunk(ci)
    /\ au' = TaskIdle
    /\ vi' = VideoIdle
    /\ llm' = LlmIdle
    /\ ocr' = OcrIdle
    /\ UNCHANGED <<inputVars, videoIndex, chunks, cloudSegs, jobOutcome, refineCalls,
                   outVars, chanVars, cv>>

\* src/main.go:564-594: every chunk was processed; the audio and the video
\* file are read back (failed names the read that fails) and sentLlmPrompt is
\* called with the combined file
StartRefine(failed) ==
    /\ mpc = "process"
    /\ ci > Len(chunks)
    /\ llm.st = "idle"
    /\ IF failed = "ok"
       THEN /\ mpc' = "refine"
            /\ llm' = [LlmCall(Job) EXCEPT
                          !.prompt = CombinedPrompt(FileContent(Job, "audio"),
                                                    FileContent(Job, "video"))]
            /\ refineCalls' = [refineCalls EXCEPT ![Job] = @ + 1]
            /\ UNCHANGED <<videoIndex, jobOutcome>>
       ELSE /\ mpc' = LoopNext
            /\ videoIndex' = NextVideo(videoIndex)
            /\ jobOutcome' = [jobOutcome EXCEPT ![Job] = "readFailed"]
            /\ UNCHANGED <<llm, refineCalls>>
    /\ UNCHANGED <<inputVars, chunks, ci, cloudSegs, outVars, chanVars,
                   taskVars, cv, ocr>>

\* src/main.go:596-598: "--- VIDEO %d PROCESSING COMPLETE ---"
Marker(v) == Line("marker", v, 0, NoText)

\* a job that marks its combined file only
MarkedKindsCombinedOnly == {"combined"}

\* src/main.go:596-598: the files the completion marker is written to
MarkedKinds == Kinds

\* src/main.go:594-599: sentLlmPrompt has returned; the completion markers
\* are written to the three files and the loop goes on
FinishJob ==
    /\ mpc = "refine"
    /\ llm.st = "returned"
    /\ llm' = LlmIdle
    /\ outFiles' = AppendAll(outFiles, Job, MarkedKinds, Marker(Job))
    /\ jobOutcome' = [jobOutcome EXCEPT ![Job] = "complete"]
    /\ mpc' = LoopNext
    /\ videoIndex' = NextVideo(videoIndex)
    /\ UNCHANGED <<inputVars, chunks, ci, cloudSegs, refineCalls, created, temp,
                   chanVars, taskVars, cv, ocr>>

\* src/main.go:600: close(errorChannel)
CloseChannel ==
    /\ mpc = "close"
    /\ chanClosed' = TRUE
    /\ mpc' = "drain"
    /\ UNCHANGED <<inputVars, videoIndex, chunks, ci, cloudSegs, jobOutcome, refineCalls, outVars,
                   errorChannel, logged, taskVars, cv, llm, ocr>>

\* src/main.go:601-603: receive and log the next error
Drain ==
    /\ mpc = "drain"
    /\ errorChannel # << >>
    /\ logged' = Append(logged, Head(errorChannel))
    /\ errorChannel' = Tail(errorChannel)
    /\ UNCHANGED <<inputVars, mainVars, outVars, chanClosed, taskVars, cv,
                   llm, ocr>>

\* src/main.go:601,605-607: the closed channel is empty, main returns
MainReturn ==
    /\ mpc = "drain"
    /\ errorChannel = << >>
    /\ mpc' = "done"
    /\ UNCHANGED <<inputVars, videoIndex, chunks, ci, cloudSegs, jobOutcome, refineCalls, outVars,
                   chanVars, taskVars, cv, llm, ocr>>

\* ------------------------------------------------------- specifications
NoJobs == [j \in Jobs |-> "none"]

\* a chunk duration (seconds) longer than any probed duration
LongChunkDuration == MaxDurationTicks

\* the whole program, from the start of main: one video cut into chunks of
\* MaxChunkDuration seconds, or several videos each shorter than a chunk;
\* the videos have different base names (SpecNames takes the others)
Init ==
    /\ numVideos \in 0..MaxVideos
    /\ videoPaths = DefaultPaths(numVideos)
    /\ fileOf = FilesOf(numVideos, videoPaths)
    /\ chunkDuration = IF numVideos <= 1 THEN MaxChunkDuration
                       ELSE LongChunkDuration
    /\ numCPU = MaxCPU
    /\ mpc = "start"
    /\ videoIndex = 0
    /\ created = {}
    /\ outFiles = EmptyFiles
    /\ chunks = << >>
    /\ ci = 1
    /\ cloudSegs = 0
    /\ jobOutcome = NoJobs
    /\ refineCalls = [j \in Jobs |-> 0]
    /\ temp = {}
    /\ cv = CvIdle
    /\ au = TaskIdle
    /\ vi = VideoIdle
    /\ errorChannel = << >>
    /\ chanClosed = FALSE
    /\ logged = << >>
    /\ llm = LlmIdle
    /\ ocr = OcrIdle

\* the frame counts extractFrames yields inside the whole program
PipelineFrameCounts == {0, 1}

ChunkNext == ChunkProbe \/ ChunkExtract \/ ChunkReturn

\* the ensemble's workers and collector, with the step outcomes drawn from
\* prep and rec
OcrSteps(prep, rec) ==
    \/ Dispatch
    \/ DispatchEnd
    \/ \E f \in 1..ocr.n, o \in prep : WorkerPrepare(f, o)
    \/ \E f \in 1..ocr.n, o \in rec : WorkerRecognize(f, o)
    \/ \E f \in 1..ocr.n : WorkerRelease(f)
    \/ \E f \in 1..ocr.n : WorkerDone(f)
    \/ WaitWorkers
    \/ Collect
    \/ OcrReturn

OcrNext == OcrSteps(PrepareOutcomes, RecognizeOutcomes)

\* inside the whole program one failure of each worker step stands for all
PipelineOcrNext == OcrSteps({"ok", "open"}, {"ok", "tesseract"})

AudioNext ==
    \/ \E ok \in BOOLEAN : AudioWhisper(ok)
    \/ AudioSendErr
    \/ \E ok \in BOOLEAN : AudioWrite(ok)
    \/ AudioSendWriteErr
    \/ AudioRemove

VideoNext ==
    \/ \E ok \in BOOLEAN : VideoUpload(ok)
    \/ VideoActivate
    \/ VideoPrompted
    \/ \E o \in FrameOutcomes, n \in PipelineFrameCounts : VideoExtractFrames(o, n)
    \/ VideoOcrReturned
    \/ \E ok \in BOOLEAN : VideoDeleteFile(ok)
    \/ VideoSendErr
    \/ \E ok \in BOOLEAN : VideoWrite(ok)
    \/ VideoSendWriteErr
    \/ VideoRemove

MainNext ==
    \/ MainStart
    \/ \E f \in Kinds \cup {"ok"} : CreateFiles(f)
    \/ ChunkDone
    \/ ProcessChunk
    \/ WgWait
    \/ \E f \in {"ok", "audio", "video"} : StartRefine(f)
    \/ FinishJob
    \/ CloseChannel
    \/ Drain
    \/ MainReturn

PipelineLlmNext ==
    \/ GenerateErr
    \/ \E r \in PipelineResponses, failed \in SUBSET {1} : GenerateOk(r, failed)

Next ==
    \/ MainNext
    \/ ChunkNext
    \/ AudioNext
    \/ VideoNext
    \/ PipelineLlmNext
    \/ PipelineOcrNext

Spec == Init /\ [][Next]_vars

\* every variable of the whole program at rest, for a function run alone
Standalone ==
    /\ numVideos = 1
    /\ videoPaths = DefaultPaths(1)
    /\ fileOf = FilesOf(1, videoPaths)
    /\ mpc = "alone"
    /\ videoIndex = 0
    /\ created = {<<1, k>> : k \in Kinds}
    /\ outFiles = EmptyFiles
    /\ chunks = << >>
    /\ ci = 1
    /\ cloudSegs = 0
    /\ jobOutcome = NoJobs
    /\ refineCalls = [j \in Jobs |-> 0]
    /\ temp = {}
    /\ au = TaskIdle
    /\ vi = VideoIdle
    /\ errorChannel = << >>
    /\ chanClosed = FALSE
    /\ logged = << >>

\* chunkVideo alone, for every chunk duration and probed duration
InitChunk ==
    /\ Standalone
    /\ chunkDuration \in 1..MaxChunkDuration
    /\ numCPU = MaxCPU
    /\ cv = CvCall(1)
    /\ llm = LlmIdle
    /\ ocr = OcrIdle

SpecChunk == InitChunk /\ [][ChunkNext]_vars

\* sentLlmPrompt alone, with and without a destination file
InitPrompt ==
    /\ Standalone
    /\ chunkDuration = MaxChunkDuration
    /\ numCPU = MaxCPU
    /\ cv = CvIdle
    /\ llm \in {LlmCall(0), LlmCall(1)}
    /\ ocr = OcrIdle

PromptNext ==
    \/ GenerateErr
    \/ \E r \in PromptResponses, failed \in SUBSET (1..3) : GenerateOk(r, failed)

SpecPrompt == InitPrompt /\ [][PromptNext]_vars

\* the scheduler runs sentLlmPrompt's goroutine, and GenerateContent returns
SpecPromptFair == SpecPrompt /\ WF_vars(PromptNext)

\* transcribeFramesTesseractCLI alone, for every frame count and CPU count
InitOCR ==
    /\ Standalone
    /\ chunkDuration = MaxChunkDuration
    /\ numCPU \in 1..MaxCPU
    /\ cv = CvIdle
    /\ llm = LlmIdle
    /\ ocr \in {OcrCall(n) : n \in 0..MaxFrames}

SpecOCR == InitOCR /\ [][OcrNext]_vars

\* the scheduler runs every goroutine that can take a step, and every
\* external command a worker starts returns
SpecOCRFair == SpecOCR /\ WF_vars(OcrNext)

\* one CPU more than the pool's cap
ManyCPU == poolCap + 1

\* transcribeFramesTesseractCLI alone on a machine with one CPU or with more
\* CPUs than the cap, given no frame, one frame or more frames than the cap,
\* none of which can be opened
InitPool ==
    /\ Standalone
    /\ chunkDuration = MaxChunkDuration
    /\ numCPU \in {1, ManyCPU}
    /\ cv = CvIdle
    /\ llm = LlmIdle
    /\ ocr \in {OcrCall(n) : n \in {0, 1, ManyCPU}}

PoolNext ==
    \/ Dispatch
    \/ DispatchEnd
    \/ \E f \in 1..ocr.n : WorkerPrepare(f, "open")
    \/ \E f \in 1..ocr.n : WorkerRelease(f)
    \/ \E f \in 1..ocr.n : WorkerDone(f)
    \/ WaitWorkers
    \/ Collect
    \/ OcrReturn

SpecPool == InitPool /\ [][PoolNext]_vars

\* an outage: the speech engine, the cloud upload and prompt, the frame
\* extraction and every write to an audio or video file fail, for one video
\* cut into chunks of one second.  Every step is a step of Next.
InitOutage ==
    /\ numVideos = 1
    /\ videoPaths = DefaultPaths(1)
    /\ fileOf = FilesOf(1, videoPaths)
    /\ chunkDuration = 1
    /\ numCPU = MaxCPU
    /\ mpc = "start"
    /\ videoIndex = 0
    /\ created = {}
    /\ outFiles = EmptyFiles
    /\ chunks = << >>
    /\ ci = 1
    /\ cloudSegs = 0
    /\ jobOutcome = NoJobs
    /\ refineCalls = [j \in Jobs |-> 0]
    /\ temp = {}
    /\ cv = CvIdle
    /\ au = TaskIdle
    /\ vi = VideoIdle
    /\ errorChannel = << >>
    /\ chanClosed = FALSE
    /\ logged = << >>
    /\ llm = LlmIdle
    /\ ocr = OcrIdle

OutageNext ==
    \/ MainStart
    \/ CreateFiles("ok")
    \/ ChunkNext
    \/ ChunkDone
    \/ ProcessChunk
    \/ WgWait
    \/ StartRefine("ok")
    \/ GenerateErr
    \/ FinishJob
    \/ CloseChannel
    \/ Drain
    \/ MainReturn
    \/ AudioWhisper(FALSE)
    \/ AudioSendErr
    \/ AudioWrite(FALSE)
    \/ AudioSendWriteErr
    \/ AudioRemove
    \/ VideoUpload(FALSE)
    \/ VideoExtractFrames("ffmpeg", 0)
    \/ VideoSendErr
    \/ VideoWrite(FALSE)
    \/ VideoSendWriteErr
    \/ VideoRemove

SpecOutage == InitOutage /\ [][OutageNext]_vars

\* the video paths a run is started on when names may coincide: the same
\* file name in two folders, two extensions of one stem, a stem that ends
\* like the suffix of an output name, and an unrelated one
InputPaths ==
    {InputPath("a", <<"x">>, "mp4"), InputPath("b", <<"x">>, "mp4"),
     InputPath("a", <<"x">>, "mkv"), InputPath("a", <<"x", "_audio">>, "mp4"),
     InputPath("a", <<"y">>, "mp4")}

\* src/main.go:492-511: WalkDir finds every path once
PathLists(n) ==
    {l \in [1..n -> InputPaths] : \A a, b \in 1..n : a # b => l[a] # l[b]}

\* the whole program on MaxVideos different paths, each video shorter than a
\* chunk, when the engines, the cloud model and every write succeed
InitNames ==
    /\ numVideos = MaxVideos
    /\ videoPaths \in PathLists(numVideos)
    /\ fileOf = FilesOf(numVideos, videoPaths)
    /\ chunkDuration = LongChunkDuration
    /\ numCPU = MaxCPU
    /\ mpc = "start"
    /\ videoIndex = 0
    /\ created = {}
    /\ outFiles = EmptyFiles
    /\ chunks = << >>
    /\ ci = 1
    /\ cloudSegs = 0
    /\ jobOutcome = NoJobs
    /\ refineCalls = [j \in Jobs |-> 0]
    /\ temp = {}
    /\ cv = CvIdle
    /\ au = TaskIdle
    /\ vi = VideoIdle
    /\ errorChannel = << >>
    /\ chanClosed = FALSE
    /\ logged = << >>
    /\ llm = LlmIdle
    /\ ocr = OcrIdle

NamesNext ==
    \/ MainStart
    \/ CreateFiles("ok")
    \/ ChunkNext
    \/ ChunkDone
    \/ ProcessChunk
    \/ WgWait
    \/ StartRefine("ok")
    \/ \E r \in PipelineResponses \ {<< >>} : GenerateOk(r, {})
    \/ FinishJob
    \/ CloseChannel
    \/ MainReturn
    \/ AudioWhisper(TRUE)
    \/ AudioWrite(TRUE)
    \/ AudioRemove
    \/ VideoUpload(TRUE)
    \/ VideoActivate
    \/ VideoPrompted
    \/ VideoDeleteFile(TRUE)
    \/ VideoWrite(TRUE)
    \/ VideoRemove

SpecNames == InitNames /\ [][NamesNext]_vars

\* the whole program under load: every video is cut into chunks of
\* MaxChunkDuration seconds, whisper-cli succeeds, the upload succeeds or
\* fails, the cloud model answers with a text, with nothing or not at all,
\* and the fallback is given MaxFrames frames that tesseract recognizes
InitLoad ==
    /\ numVideos \in 1..MaxVideos
    /\ videoPaths = DefaultPaths(numVideos)
    /\ fileOf = FilesOf(numVideos, videoPaths)
    /\ chunkDuration = MaxChunkDuration
    /\ numCPU \in 1..MaxCPU
    /\ mpc = "start"
    /\ videoIndex = 0
    /\ created = {}
    /\ outFiles = EmptyFiles
    /\ chunks = << >>
    /\ ci = 1
    /\ cloudSegs = 0
    /\ jobOutcome = NoJobs
    /\ refineCalls = [j \in Jobs |-> 0]
    /\ temp = {}
    /\ cv = CvIdle
    /\ au = TaskIdle
    /\ vi = VideoIdle
    /\ errorChannel = << >>
    /\ chanClosed = FALSE
    /\ logged = << >>
    /\ llm = LlmIdle
    /\ ocr = OcrIdle

LoadNext ==
    \/ MainStart
    \/ CreateFiles("ok")
    \/ ChunkNext
    \/ ChunkDone
    \/ ProcessChunk
    \/ WgWait
    \/ StartRefine("ok")
    \/ GenerateErr
    \/ \E r \in PipelineResponses : GenerateOk(r, {})
    \/ FinishJob
    \/ CloseChannel
    \/ MainReturn
    \/ AudioWhisper(TRUE)
    \/ AudioWrite(TRUE)
    \/ AudioRemove
    \/ \E ok \in BOOLEAN : VideoUpload(ok)
    \/ VideoActivate
    \/ VideoPrompted
    \/ VideoExtractFrames("ok", MaxFrames)
    \/ OcrSteps({"ok"}, {"ok"})
    \/ VideoOcrReturned
    \/ VideoDeleteFile(TRUE)
    \/ VideoWrite(TRUE)
    \/ VideoRemove

SpecLoad == InitLoad /\ [][LoadNext]_vars

\* ================================================================ claims
InSeq(x, seq) == \E i \in 1..Len(seq) : seq[i] = x

\* the error of this kind for chunk c of video v was sent on the channel
Reported(kind, v, c) ==
    LET e == [kind |-> kind, v |-> v, c |-> c]
    IN  InSeq(e, errorChannel) \/ InSeq(e, logged)

\* the records of chunk c of video v in a file
RecordsOf(file, v, c) ==
    SelectSeq(file, LAMBDA l : l.kind = "record" /\ l.v = v /\ l.c = c)

\* transcribeVideoLLM has returned to the video goroutine
VideoReturned ==
    vi.pc \in {"deleteFile", "sendErr", "write", "sendWriteErr", "remove", "done"}

\* C1: when processChunk has returned for a segment, the audio file and the
\* video file each hold exactly one record tagged with the segment's video
\* index and chunk number, whatever the audio engine and the video task did;
\* the record of a failed task carries the placeholder text and the record of
\* a task that succeeded carries its transcript.  (Scope: the outcomes the
\* claim lists.  A failed Fprintf, which the code reports as a write error,
\* leaves no record of that segment in that file.)
C1_OneRecordPerSegment ==
    \A k \in 1..Len(chunks) :
        k < ci =>
        LET v == chunks[k].VideoIndex
            c == chunks[k].ChunkNum
            a == RecordsOf(outFiles[v]["audio"], v, c)
            b == RecordsOf(outFiles[v]["video"], v, c)
        IN  /\ IF Reported("audioWrite", v, c) THEN a = << >>
               ELSE /\ Len(a) = 1
                    /\ a[1].text = IF Reported("audio", v, c)
                                   THEN AudioPlaceholder ELSE WhisperText
            /\ IF Reported("videoWrite", v, c) THEN b = << >>
               ELSE /\ Len(b) = 1
                    /\ (b[1].text = VideoPlaceholder) <=> Reported("video", v, c)

\* C1 witness: processChunk has returned for a segment whose audio engine and
\* whose frame extraction both failed, and both placeholders are on file
C1_Witness ==
    /\ mpc = "process"
    /\ ci = 2
    /\ Reported("audio", 1, 0)
    /\ Reported("video", 1, 0)
    /\ outFiles[1]["audio"] = <<Line("record", 1, 0, AudioPlaceholder)>>
    /\ outFiles[1]["video"] = <<Line("record", 1, 0, VideoPlaceholder)>>

\* C2 (as claimed): reporting an error never blocks a task: no goroutine of
\* processChunk stands at a send on the error channel while the channel's
\* buffer is full.  (Nothing receives from the channel before main's final
\* drain, and main is in wg.Wait for that very goroutine, so a goroutine in
\* that state stays there forever and the run never reaches the drain.)
C2_ReportingNeverBlocks ==
    /\ au.pc \in {"sendErr", "sendWriteErr"} => CanSend
    /\ vi.pc \in {"sendErr", "sendWriteErr"} => CanSend

\* C3: sentLlmPrompt calls GenerateContent at most maxRetries+1 = 4 times, a
\* call whose attempts all failed returns "" after exactly that many, and the
\* call always returns.
C3_RetryBound ==
    /\ [](/\ llm.calls <= 4
          /\ (llm.st = "returned" /\ ~llm.succeeded)
                 => (llm.result = NoText /\ llm.calls = maxRetries + 1))
    /\ <>(llm.st = "returned")

\* C3 witness: a call has returned after four failed attempts
C3_Witness ==
    /\ llm.st = "returned"
    /\ ~llm.succeeded
    /\ llm.calls = 4
    /\ llm.result = NoText

\* C4: a failed upload goes to the OCR fallback without any prompt; an empty
\* prompt result after a successful upload goes to the same fallback; when
\* the fallback's frame extraction succeeded, transcribeVideoLLM returns the
\* ensemble's text with no error, no video error is sent on the channel and
\* the segment's video record carries the ensemble's text.
C4_FallbackYieldsOcrText ==
    /\ vi.fallback = "upload" => (~vi.prompted /\ ~vi.uploaded /\ llm = LlmIdle)
    /\ (vi.prompted /\ vi.pc # "prompt" /\ llm.result = NoText)
           => vi.fallback = "empty"
    /\ (vi.fallback # "none" /\ vi.frameDir # "none" /\ VideoReturned)
           => /\ vi.err = "nil"
              /\ vi.transcript = ocr.combined
              /\ ~Reported("video", Chunk.VideoIndex, Chunk.ChunkNum)
              /\ (vi.pc \in {"remove", "done"}
                  /\ ~Reported("videoWrite", Chunk.VideoIndex, Chunk.ChunkNum))
                     => RecordsOf(outFiles[Chunk.VideoIndex]["video"],
                                  Chunk.VideoIndex, Chunk.ChunkNum)
                        = <<Record(ocr.combined)>>

\* C4 witness: the prompt came back empty after a successful upload, the
\* fallback recognized a frame and its text is the segment's video record
C4_Witness ==
    /\ vi.pc = "done"
    /\ vi.fallback = "empty"
    /\ vi.uploaded
    /\ ocr.combined = FrameText(1) \o Newline
    /\ InSeq(Record(FrameText(1) \o Newline), outFiles[Chunk.VideoIndex]["video"])
    /\ errorChannel = << >>

\* the texts the cloud model returns inside the whole program
CloudTexts == {Flatten(TextsOf(r)) : r \in PipelineResponses} \ {NoText}

LlmLines(file) == SelectSeq(file, LAMBDA l : l.kind = "llm")

\* C5: after a successful upload and a non-empty prompt result the task
\* samples no frames, runs no OCR and returns exactly the model's text; when
\* the cloud calls of all n segments of a job succeeded the video file holds
\* n records, one per segment, carrying cloud text; the combined file
\* receives at most one refinement response (exactly the returned one when
\* its write succeeded), and only after every segment has finished.
C5_CloudPath ==
    /\ (vi.uploaded /\ vi.prompted /\ vi.pc # "prompt" /\ llm.result # NoText)
           => /\ vi.fallback = "none"
              /\ vi.frameDir = "none"
              /\ ocr = OcrIdle
              /\ vi.err = "nil"
              /\ vi.transcript = llm.result
    /\ (/\ mpc \in {"process", "refine"}
        /\ ci > Len(chunks)
        /\ cloudSegs = Len(chunks)
        /\ \A k \in 1..Len(chunks) : ~Reported("videoWrite", Job, k - 1))
           => /\ Len(outFiles[Job]["video"]) = Len(chunks)
              /\ \A k \in 1..Len(chunks) :
                    /\ outFiles[Job]["video"][k].kind = "record"
                    /\ outFiles[Job]["video"][k].v = Job
                    /\ outFiles[Job]["video"][k].c = k - 1
                    /\ outFiles[Job]["video"][k].text \in CloudTexts
    /\ \A j \in Jobs :
          /\ Len(LlmLines(outFiles[j]["combined"])) <= 1
          /\ outFiles[j]["combined"] # << >>
                => \/ jobOutcome[j] = "complete"
                   \/ /\ j = Job
                      /\ mpc = "refine"
                      /\ ci > Len(chunks)
                      /\ au = TaskIdle
                      /\ vi = VideoIdle
    /\ (mpc = "refine" /\ llm.st = "returned" /\ llm.result # NoText
        /\ llm.wfailed = 0)
           => outFiles[Job]["combined"] = <<Line("llm", 0, 0, llm.result)>>

\* C5 witness: both segments of a job were transcribed by the cloud model and
\* the refinement response has just been written to the combined file
C5_Witness ==
    /\ mpc = "refine"
    /\ llm.st = "returned"
    /\ Len(chunks) = 2
    /\ cloudSegs = 2
    /\ Len(outFiles[Job]["video"]) = 2
    /\ \A k \in 1..2 : outFiles[Job]["video"][k].text \in CloudTexts
    /\ Len(outFiles[Job]["combined"]) = 1

\* C6: transcribeFramesTesseractCLI returns no error, and its text is the
\* concatenation, in some order, of the texts of the recognized frames, each
\* followed by a newline, with nothing from a failed frame.
C6_EnsembleResult ==
    ocr.st = "returned" =>
        /\ ocr.err = "nil"
        /\ Len(ocr.combined) = 2 * Cardinality(ocr.ok)
        /\ \A f \in ocr.ok :
              \E i \in 1..Cardinality(ocr.ok) :
                  /\ <<ocr.combined[2 * i - 1]>> = FrameText(f)
                  /\ <<ocr.combined[2 * i]>> = Newline
        /\ \A f \in (1..ocr.n) \ ocr.ok :
              \A i \in 1..Len(ocr.combined) : <<ocr.combined[i]>> # FrameText(f)

\* C6 witness: the ensemble has returned for two frames of which one failed
C6_Witness ==
    /\ ocr.st = "returned"
    /\ ocr.n = 2
    /\ Cardinality(ocr.ok) = 1
    /\ Len(ocr.combined) = 2

\* C7 (as claimed): the number of segments is ceil(D / C)
C7_CountIsCeil ==
    cv.st \in {"loop", "returned"} /\ cv.duration > 0
        => cv.numChunks = Ceil(cv.duration, chunkDuration * Res)

\* C8 (as claimed): the windows requested are [i*C, i*C+C) for i = 0..count-1
\* in increasing order, and every instant of [0, D) lies in exactly one of them
C8_WindowsPartition ==
    (cv.st = "returned" /\ cv.err = "nil") =>
        /\ Len(cv.requests) = cv.numChunks
        /\ \A i \in 1..Len(cv.requests) :
              /\ cv.requests[i].start = (i - 1) * chunkDuration
              /\ cv.requests[i].len = chunkDuration
        /\ \A t \in 0..(cv.duration - 1) :
              Cardinality({i \in 1..Len(cv.requests) :
                              /\ cv.requests[i].start * Res <= t
                              /\ t < (cv.requests[i].start + cv.requests[i].len) * Res})
                  = 1

\* C9 (as claimed): a failed creation of an output file aborts only that job:
\* main goes on with the next video, or with the final drain after the last
C9_CreateFailureSkipsJob ==
    [][(mpc = "create" /\ mpc' # "chunk")
          => (mpc' = LoopNext /\ videoIndex' = videoIndex + 1)]_vars

\* C10: when the probe or the extraction of any segment fails, chunkVideo
\* returns an error and an empty list; main writes nothing to that job's
\* files, starts no segment task and no refinement prompt for it, and goes on
\* with the next video.
C10_SegmentationFailureSkipsJob ==
    /\ (cv.st = "returned" /\ cv.err # "nil") => cv.chunks = << >>
    /\ \A j \in Jobs :
          jobOutcome[j] = "chunkFailed"
              => /\ \A k \in Kinds : outFiles[j][k] = << >>
                 /\ videoIndex >= j
                 /\ (videoIndex = j /\ j < numVideos)
                        => mpc \in {"create", "chunk", "process", "wgWait",
                                    "refine", "fatal"}
                 /\ (videoIndex = j /\ j >= numVideos)
                        => mpc \in {"close", "drain", "done"}

\* C10 witness: the first video's segmentation failed and the second video's
\* segment is being processed
C10_Witness ==
    /\ jobOutcome[1] = "chunkFailed"
    /\ videoIndex = 1
    /\ mpc = "wgWait"
    /\ vi.pc = "done"

\* the task has written its record, or has reported that the write failed
Written(task) == task.pc \in {"remove", "done"}

\* C11 (as claimed): while processChunk works on a segment, neither artifact
\* of the segment is deleted before both the audio and the video task have
\* completed and both records have been appended
C11_NoDeleteBeforeBothDone ==
    (mpc = "wgWait" /\ (Chunk.AudioPath \notin temp \/ Chunk.VideoPath \notin temp))
        => /\ Written(au)
           /\ Written(vi)
           /\ RecordsOf(outFiles[Chunk.VideoIndex]["audio"],
                        Chunk.VideoIndex, Chunk.ChunkNum) # << >>
           /\ RecordsOf(outFiles[Chunk.VideoIndex]["video"],
                        Chunk.VideoIndex, Chunk.ChunkNum) # << >>

\* the job's iteration of main's loop is over
JobEnded(j) == jobOutcome[j] \in {"complete", "readFailed", "chunkFailed"}

\* the refinement prompt is being sent: every segment of the job has been
\* processed, no task is running, and the prompt carries the audio and the
\* video file as they stand
RefiningAfterAllSegments ==
    mpc = "refine"
        => /\ ci > Len(chunks)
           /\ au = TaskIdle
           /\ vi = VideoIdle
           /\ llm.dest = Job
           /\ llm.prompt = <<"instructions", outFiles[Job]["audio"],
                             outFiles[Job]["video"]>>
           /\ \A k \in 1..Len(chunks) :
                 /\ ~Reported("audioWrite", Job, k - 1)
                       => RecordsOf(llm.prompt[2], Job, k - 1) # << >>
                 /\ ~Reported("videoWrite", Job, k - 1)
                       => RecordsOf(llm.prompt[3], Job, k - 1) # << >>

RefineExhausted == mpc = "refine" /\ llm.st = "returned" /\ ~llm.succeeded

\* C13: when every attempt of the refinement prompt failed, the combined file
\* is still empty and no OCR has run for the job's refinement; main's next
\* step writes the completion marker to each of the three files (the only
\* line of the combined file), creates no temporary file, starts no fallback
\* and goes on with the next video; and once every segment is processed the
\* refinement can start whatever the segments' texts are.
C13_RefineFailureCompletesJob ==
    /\ [](RefineExhausted
            => /\ llm.result = NoText
               /\ llm.calls = maxRetries + 1
               /\ outFiles[Job]["combined"] = << >>
               /\ ocr = OcrIdle)
    /\ []((mpc = "process" /\ ci > Len(chunks)) => ENABLED StartRefine("ok"))
    /\ [][RefineExhausted
            => /\ outFiles'[Job]["combined"] = <<Marker(Job)>>
               /\ outFiles'[Job]["audio"] = Append(outFiles[Job]["audio"], Marker(Job))
               /\ outFiles'[Job]["video"] = Append(outFiles[Job]["video"], Marker(Job))
               /\ jobOutcome'[Job] = "complete"
               /\ mpc' = LoopNext
               /\ videoIndex' = videoIndex + 1
               /\ ocr' = OcrIdle
               /\ temp' = temp
               /\ llm' = LlmIdle]_vars

\* C13 witness: the refinement prompt of a job whose only video record is the
\* placeholder has failed four times
C13_Witness ==
    /\ RefineExhausted
    /\ llm.calls = 4
    /\ outFiles[Job]["video"] = <<Line("record", Job, 0, VideoPlaceholder)>>
    /\ outFiles[Job]["combined"] = << >>

MarkersIn(file, j) == SelectSeq(file, LAMBDA l : l = Line("marker", j, 0, NoText))

\* C14 (as claimed): when the run finishes, each of the three files of every
\* video whose files were created ends with that video's completion marker,
\* written exactly once
C14_EveryCreatedFileEndsWithMarker ==
    mpc = "done" =>
        \A j \in Jobs :
            (\A k \in Kinds : <<j, k>> \in created) =>
                \A k \in Kinds :
                    /\ outFiles[j][k] # << >>
                    /\ outFiles[j][k][Len(outFiles[j][k])] = Line("marker", j, 0, NoText)
                    /\ Len(MarkersIn(outFiles[j][k], j)) = 1

\* the temporary files and directories made while processing job j
TempsOf(j) == {t \in temp : t[3] = j}

\* C15 (as claimed): when a job has ended, on the success path and on every
\* failure path, nothing temporary that was created for it is left: the
\* chunk directory, the chunks' video and audio files, the frame directories
\* and the OCR workers' temp files have all been removed
C15_NoTempLeftAtJobEnd ==
    \A j \in Jobs :
        JobEnded(j) => (TempsOf(j) = {} /\ (videoIndex = j => ocr.temps = {}))

\* C16 (as claimed): when transcribeVideoLLM has entered the OCR fallback,
\* its frame extraction succeeded and it has returned, the frame directory
\* has been removed, for every number of frames
C16_FrameDirRemoved ==
    (mpc = "wgWait" /\ vi.fallback # "none" /\ vi.frameDir # "none"
     /\ VideoReturned)
        => /\ vi.frameDir = "removed"
           /\ FrameDir(Chunk) \notin temp

\* transcribeVideoLLM has returned and its deferred calls have run
VideoAfterDefer == vi.pc \in {"sendErr", "write", "sendWriteErr", "remove", "done"}

\* C17: a failed upload issues no delete request; a successful upload issues
\* exactly one, on every return of transcribeVideoLLM (cloud text, fallback
\* text, failed frame extraction), and only after the prompt has returned;
\* whether the delete succeeds or fails, the task's text and error stay as
\* they were returned.
C17_DeleteOncePerUpload ==
    /\ [](/\ vi.deleted <= 1
          /\ ~vi.uploaded => (vi.deleted = 0 /\ vi.pc # "deleteFile")
          /\ (vi.deleted = 1 \/ vi.pc = "deleteFile")
                => (vi.uploaded /\ vi.prompted /\ llm.st = "idle")
          /\ (vi.uploaded /\ VideoAfterDefer) => vi.deleted = 1
          /\ vi.deleteErr => vi.deleted = 1)
    /\ [][(vi.pc = "deleteFile" /\ vi'.pc # "deleteFile")
            => /\ vi'.transcript = vi.transcript
               /\ vi'.err = vi.err
               /\ vi'.pc = (IF vi.err # "nil" THEN "sendErr" ELSE "write")
               /\ vi'.deleted = 1]_vars

\* C17 witness: after a successful upload and an empty prompt result the
\* fallback's frame extraction failed, the delete request was issued and
\* failed, and the task has ended with the extraction error
C17_Witness ==
    /\ vi.pc = "done"
    /\ vi.uploaded
    /\ vi.fallback = "empty"
    /\ vi.err = "frames"
    /\ vi.deleted = 1
    /\ vi.deleteErr

\* the workers that were started and whose state is one of states
WorkersIn(states) == {f \in 1..ocr.n : ocr.w[f] \in states}

\* C18 (as claimed): the workers that were started and have not yet finished
\* (their deferred wg.Done has not run) are never more than min(CPUs, 8)
C18_UnfinishedBounded ==
    Cardinality(WorkersIn({"start", "temp", "exit", "released"}))
        <= Min(numCPU, poolCap)

\* C18 (amended): the workers that were started and have not yet released
\* their pool slot are never more than min(CPUs, 8), and they are exactly the
\* holders of the guard's slots; a worker that has released its slot has only
\* its wg.Done left to run.
C18_SlotHoldersBounded ==
    /\ Cardinality(WorkersIn({"start", "temp", "exit"})) <= Min(numCPU, poolCap)
    /\ Cardinality(WorkersIn({"start", "temp", "exit"})) = ocr.guard
    /\ Cardinality(WorkersIn({"start", "temp", "exit", "released"})) = ocr.wg
    /\ \A f \in WorkersIn({"released"}) : f \notin ocr.temps

\* C18 witness: on a machine with nine CPUs eight workers hold a slot and
\* the ninth frame waits to be dispatched
C18_Witness ==
    /\ numCPU = ManyCPU
    /\ ocr.st = "dispatch"
    /\ ocr.n = ManyCPU
    /\ ocr.next = ManyCPU
    /\ Cardinality(WorkersIn({"start", "temp", "exit"})) = poolCap

\* C19: the result channel is closed, and the call returns, only after every
\* started worker has finished; every worker that has left its body has sent
\* exactly one result, whichever way it left; and exactly n results have been
\* received when the call returns for n frames.
C19_BarrierAndOneResultEach ==
    /\ (ocr.closed \/ ocr.st \in {"collect", "returned"})
          => (WorkersIn({"done"}) = 1..ocr.n /\ ocr.wg = 0 /\ ocr.guard = 0)
    /\ ocr.st \in {"dispatch", "wait"}
          => /\ ocr.received = 0
             /\ Len(ocr.frameResults)
                    = Cardinality(WorkersIn({"exit", "released", "done"}))
    /\ ocr.st \in {"collect", "returned"}
          => Len(ocr.frameResults) + ocr.received = ocr.n
    /\ ocr.st = "returned" => (ocr.received = ocr.n /\ ocr.frameResults = << >>)

\* C19 witness: the call has returned for two frames, one recognized and
\* one failed, after receiving two results
C19_Witness ==
    /\ ocr.st = "returned"
    /\ ocr.n = 2
    /\ ocr.received = 2
    /\ ocr.ok = {2}
    /\ ocr.closed

\* C20: no worker that is about to send its result finds the result channel
\* full; a dispatching loop that waits for a pool slot gets one; and the call
\* returns, for every number of frames.
C20_EnsembleTerminates ==
    /\ [](WorkersIn({"start", "temp"}) # {} => CanReport)
    /\ (ocr.st = "dispatch" /\ ocr.next <= ocr.n /\ ocr.guard >= NumWorkers)
          ~> (ocr.next > ocr.n \/ ocr.guard < NumWorkers)
    /\ <>(ocr.st = "returned")

\* C20 witness: on one CPU the call has returned for two frames, the second
\* of which had to wait for the pool's only slot
C20_Witness ==
    /\ ocr.st = "returned"
    /\ numCPU = 1
    /\ ocr.n = 2
    /\ WorkersIn({"done"}) = {1, 2}

\* main stands between two jobs, before the first or after the last
BetweenJobs == mpc \in {"start", "create", "fatal", "close", "drain", "done"}

\* nothing of job j has started
Untouched(j) ==
    /\ jobOutcome[j] = "none"
    /\ refineCalls[j] = 0
    /\ \A k \in Kinds : <<j, k>> \notin created /\ outFiles[j][k] = << >>
    /\ TempsOf(j) = {}

\* C21: jobs run one after another in input order.  While main works on a
\* job every earlier job has written its markers or was aborted and no later
\* job has created a file, segmented, run a task or sent a prompt; between
\* two jobs no goroutine, prompt, ensemble or segmentation is running; the
\* tasks that run belong to the current job; and the loop variable only ever
\* moves to the next video, leaving a job that has ended.
C21_JobsInSequence ==
    /\ [](/\ \A j \in 1..numVideos :
                /\ j < Job => JobEnded(j)
                /\ j > Job => Untouched(j)
          /\ BetweenJobs
                => /\ au = TaskIdle /\ vi = VideoIdle
                   /\ llm = LlmIdle /\ ocr = OcrIdle /\ cv = CvIdle
          /\ mpc = "wgWait" => Chunk.VideoIndex = Job
          /\ cv.st # "idle" => cv.vIdx = Job
          /\ (llm.st # "idle" /\ llm.dest # 0) => llm.dest = Job)
    /\ [][videoIndex' # videoIndex
            => /\ videoIndex' = videoIndex + 1
               /\ jobOutcome'[videoIndex + 1]
                      \in {"complete", "readFailed", "chunkFailed"}
               /\ BetweenJobs']_vars

\* C21 witness: the second video's segment tasks are running after the first
\* video was completed
C21_Witness ==
    /\ videoIndex = 1
    /\ mpc = "wgWait"
    /\ jobOutcome[1] = "complete"
    /\ au.pc = "write"
    /\ vi.pc = "prompt"

\* the state of the video transcription task
VState ==
    CASE vi.pc = "idle" -> "Idle"
      [] vi.pc = "upload" -> "Uploading"
      [] vi.pc = "activate" -> "AwaitingActivation"
      [] vi.pc = "prompt" -> "Prompting"
      [] vi.pc \in {"frames", "ocr"} -> "FallbackOCR"
      [] OTHER -> IF vi.err = "nil" THEN "Succeeded" ELSE "Failed"

\* the transitions of the video transcription task
VTransitions ==
    {<<"Idle", "Uploading">>,
     <<"Uploading", "AwaitingActivation">>, <<"Uploading", "FallbackOCR">>,
     <<"AwaitingActivation", "Prompting">>,
     <<"Prompting", "Succeeded">>, <<"Prompting", "FallbackOCR">>,
     <<"FallbackOCR", "Succeeded">>, <<"FallbackOCR", "Failed">>,
     <<"Succeeded", "Idle">>, <<"Failed", "Idle">>}

\* C22: the video task moves only along Uploading -> AwaitingActivation |
\* FallbackOCR, AwaitingActivation -> Prompting, Prompting -> Succeeded |
\* FallbackOCR, FallbackOCR -> Succeeded | Failed, each for the stated
\* reason.  No state but the final ones is left for an earlier one, so the
\* upload and the activation wait happen once and the fallback at most once;
\* and a task that has ended is in Succeeded or Failed.
C22_VideoTaskTransitions ==
    /\ [][VState' # VState
            => /\ <<VState, VState'>> \in VTransitions
               /\ (VState = "Uploading" /\ VState' = "AwaitingActivation")
                      => vi'.uploaded
               /\ (VState = "Uploading" /\ VState' = "FallbackOCR")
                      => ~vi'.uploaded /\ ~vi'.prompted
               /\ (VState = "Prompting" /\ VState' = "Succeeded")
                      => (llm.result # NoText /\ vi'.transcript = llm.result)
               /\ (VState = "Prompting" /\ VState' = "FallbackOCR")
                      => llm.result = NoText
               /\ (VState = "FallbackOCR" /\ VState' = "Succeeded")
                      => vi.frameDir # "none"
               /\ (VState = "FallbackOCR" /\ VState' = "Failed")
                      => (vi.frameDir = "none" /\ vi'.err = "frames")]_vars
    /\ [](/\ VState = "AwaitingActivation" => (vi.uploaded /\ ~vi.prompted)
          /\ VState = "Prompting" => (vi.uploaded /\ vi.prompted)
          /\ vi.prompted => vi.uploaded
          /\ vi.pc = "done" => VState \in {"Succeeded", "Failed"})

\* C22 witness: a task that went through the upload, the activation wait, the
\* prompt and the fallback has ended in Failed
C22_Witness ==
    /\ vi.pc = "done"
    /\ vi.uploaded
    /\ vi.prompted
    /\ vi.fallback = "empty"
    /\ VState = "Failed"

\* how often error e was sent on the error channel
TimesSent(e) ==
    Len(SelectSeq(errorChannel, LAMBDA x : x = e))
        + Len(SelectSeq(logged, LAMBDA x : x = e))

\* the video goroutine is past its report of a failed transcription
VideoPastReport == vi.pc \in {"write", "sendWriteErr", "remove", "done"}

\* C23: in the fallback only a failed frame extraction fails the video task;
\* it then sends exactly one video error for the segment and records the
\* placeholder, while the audio task can take its steps and the next segment
\* follows.  When the frames were extracted, the task succeeds with the text
\* of the recognized frames, however many of them failed, sends no video
\* error, and the ensemble is not run again.
C23_FallbackFailures ==
    /\ [](mpc = "wgWait"
            => LET e == ErrorOf("video")
                   records == RecordsOf(outFiles[Chunk.VideoIndex]["video"],
                                        Chunk.VideoIndex, Chunk.ChunkNum)
               IN  /\ TimesSent(e) <= 1
                   /\ vi.err \in {"nil", "frames"}
                   /\ vi.err = "frames"
                         => /\ vi.fallback # "none" /\ vi.frameDir = "none"
                            /\ VideoPastReport
                                  => (TimesSent(e) = 1
                                      /\ vi.transcript = VideoPlaceholder)
                            /\ (vi.pc \in {"remove", "done"}
                                /\ TimesSent(ErrorOf("videoWrite")) = 0)
                                  => records = <<Record(VideoPlaceholder)>>
                            /\ au.pc \in {"whisper", "write", "remove"}
                                  => ENABLED AudioNext
                   /\ (vi.frameDir # "none" /\ VideoReturned)
                         => /\ vi.err = "nil"
                            /\ TimesSent(e) = 0
                            /\ vi.transcript = ocr.combined
                            /\ Len(ocr.combined) = 2 * Cardinality(ocr.ok)
                            /\ ocr.ok \subseteq 1..ocr.n
                            /\ (vi.pc \in {"remove", "done"}
                                /\ TimesSent(ErrorOf("videoWrite")) = 0)
                                  => records = <<Record(ocr.combined)>>)
    /\ [][(mpc = "wgWait" /\ VideoReturned)
            => IF mpc' = "wgWait" THEN ocr' = ocr
               ELSE mpc' = "process" /\ ci' = ci + 1]_vars

\* C23 witness: the frame extraction of the first segment failed; its video
\* record is the placeholder, its audio record the transcript, one video
\* error was sent, and the second segment's tasks are running
C23_Witness ==
    /\ mpc = "wgWait"
    /\ ci = 2
    /\ TimesSent([kind |-> "video", v |-> 1, c |-> 0]) = 1
    /\ Len(errorChannel) = 1
    /\ outFiles[1]["video"] = <<Line("record", 1, 0, VideoPlaceholder)>>
    /\ outFiles[1]["audio"] = <<Line("record", 1, 0, WhisperText)>>
    /\ vi.pc = "upload"

\* the task has attempted its write: the record is on file or the failed
\* write was reported
WriteAttempted(kind) ==
    \/ RecordsOf(outFiles[Chunk.VideoIndex][kind], Chunk.VideoIndex,
                 Chunk.ChunkNum) # << >>
    \/ TimesSent(ErrorOf(kind \o "Write")) > 0

\* C24: processChunk starts both goroutines together; each can take its next
\* step wherever the other one stands (the sends on the error channel apart,
\* which wait for room in its buffer); and processChunk returns only when
\* both have finished, their writes attempted and their artifacts removed.
C24_BothTasksThenReturn ==
    /\ [](mpc = "wgWait"
            => /\ au.pc # "idle" /\ vi.pc # "idle"
               /\ au.pc \in {"whisper", "write", "remove"} => ENABLED AudioNext
               /\ vi.pc \in {"upload", "activate", "frames", "deleteFile",
                             "write", "remove"} => ENABLED VideoNext)
    /\ [][(mpc = "wgWait" /\ mpc' # "wgWait")
            => /\ au.pc = "done" /\ vi.pc = "done"
               /\ WriteAttempted("audio") /\ WriteAttempted("video")
               /\ Chunk.AudioPath \notin temp
               /\ Chunk.VideoPath \notin temp]_vars

\* C24 witness: the audio goroutine has finished while the video goroutine
\* has not yet uploaded
C24_Witness ==
    /\ mpc = "wgWait"
    /\ au.pc = "done"
    /\ vi.pc = "upload"
    /\ Len(outFiles[Job]["audio"]) = 1

\* the chunk numbers of the records of a file, in file order
ChunkNumbers(file) ==
    LET records == SelectSeq(file, LAMBDA l : l.kind = "record")
    IN  [i \in 1..Len(records) |-> records[i].c]

StrictlyIncreasing(seq) ==
    \A a, b \in 1..Len(seq) : a < b => seq[a] < seq[b]

\* C25: the segments of a job are numbered 0, 1, ... and processed in that
\* order, one at a time: the tasks of a segment start only when those of all
\* earlier segments have finished, and the records of the audio file, and of
\* the video file, carry strictly increasing segment numbers, none of a
\* segment that has not started.
C25_SegmentsInSequence ==
    /\ [](/\ mpc \in {"process", "wgWait"}
                => /\ \A k \in 1..Len(chunks) :
                         chunks[k].ChunkNum = k - 1 /\ chunks[k].VideoIndex = Job
                   /\ \A kind \in {"audio", "video"} :
                         \A i \in 1..Len(ChunkNumbers(outFiles[Job][kind])) :
                            ChunkNumbers(outFiles[Job][kind])[i]
                                < (IF mpc = "wgWait" THEN ci ELSE ci - 1)
          /\ \A j \in Jobs : \A kind \in {"audio", "video"} :
                StrictlyIncreasing(ChunkNumbers(outFiles[j][kind]))
          /\ mpc # "wgWait" => (au = TaskIdle /\ vi = VideoIdle))
    /\ [][ci' # ci
            => \/ ci' = 1 /\ mpc = "chunk"
               \/ /\ ci' = ci + 1
                  /\ mpc = "wgWait"
                  /\ au.pc = "done" /\ vi.pc = "done"]_vars

\* C25 witness: both segments of a job have been processed and each file
\* holds the record of segment 0 followed by that of segment 1
C25_Witness ==
    /\ mpc = "process"
    /\ ci = 3
    /\ ChunkNumbers(outFiles[Job]["audio"]) = <<0, 1>>
    /\ ChunkNumbers(outFiles[Job]["video"]) = <<0, 1>>

\* the processes whose next step writes to file kind of job j
Writers(j, kind) ==
    {p \in {"audioTask", "videoTask", "prompt", "main"} :
        \/ /\ p = "audioTask"
           /\ mpc = "wgWait" /\ au.pc = "write"
           /\ Chunk.VideoIndex = j /\ kind = AudioStream
        \/ /\ p = "videoTask"
           /\ mpc = "wgWait" /\ vi.pc = "write"
           /\ Chunk.VideoIndex = j /\ kind = VideoStream
        \/ /\ p = "prompt"
           /\ llm.st = "running" /\ llm.dest = j /\ kind = "combined"
        \/ /\ p = "main"
           /\ mpc = "refine" /\ llm.st = "returned" /\ Job = j}

IsPrefix(a, b) == Len(a) <= Len(b) /\ \A i \in 1..Len(a) : a[i] = b[i]

\* C26: at every moment each output file has at most one process about to
\* write to it; and every step that changes a file is taken by that one
\* writer and appends whole lines to what the file held.
C26_OneWriterPerStream ==
    /\ [](\A j \in Jobs : \A kind \in Kinds : Cardinality(Writers(j, kind)) <= 1)
    /\ [][\A j \in Jobs : \A kind \in Kinds :
             outFiles'[j][kind] # outFiles[j][kind]
                => /\ Cardinality(Writers(j, kind)) = 1
                   /\ IsPrefix(outFiles[j][kind], outFiles'[j][kind])]_vars

\* C26 witness: the audio goroutine and the video goroutine are both about
\* to write, each to its own file
C26_Witness ==
    /\ mpc = "wgWait"
    /\ au.pc = "write"
    /\ vi.pc = "write"
    /\ Writers(Job, "audio") = {"audioTask"}
    /\ Writers(Job, "video") = {"videoTask"}

\* the texts of the genai.Text parts of a part list, one by one
RECURSIVE PartTexts(_)
PartTexts(parts) ==
    IF parts = << >> THEN << >>
    ELSE (IF Head(parts).isText THEN <<Head(parts).text>> ELSE << >>)
         \o PartTexts(Tail(parts))

\* the text parts of all candidates of a response, candidate by candidate
RECURSIVE ResponseTexts(_)
ResponseTexts(resp) ==
    IF resp = << >> THEN << >>
    ELSE (IF Head(resp).hasContent THEN PartTexts(Head(resp).parts) ELSE << >>)
         \o ResponseTexts(Tail(resp))

\* a is b with some elements left out
RECURSIVE IsSubSeq(_, _)
IsSubSeq(a, b) ==
    IF a = << >> THEN TRUE
    ELSE IF b = << >> THEN FALSE
    ELSE IF Head(a) = Head(b) THEN IsSubSeq(Tail(a), Tail(b))
    ELSE IsSubSeq(a, Tail(b))

\* C27: the first attempt of sentLlmPrompt without an error ends the call;
\* the call returns the concatenation of the text parts of all candidates in
\* response order; with a destination every text part whose Fprintln
\* succeeded is on file once, in the same order, and nothing else is; the
\* failed attempts write nothing, and without a destination nothing is
\* written at all.
C27_SuccessfulAttempt ==
    /\ []((llm.st = "returned" /\ llm.succeeded)
            => LET texts == ResponseTexts(llm.resp)
                   lines == [i \in 1..Len(texts) |-> Line("llm", 0, 0, texts[i])]
               IN  /\ llm.result = Flatten(texts)
                   /\ llm.dest = 0 => outFiles = EmptyFiles
                   /\ llm.dest # 0
                         => /\ IsSubSeq(outFiles[llm.dest]["combined"], lines)
                            /\ Len(outFiles[llm.dest]["combined"])
                                  = Len(lines) - llm.wfailed
                            /\ \A j \in Jobs : \A kind \in Kinds :
                                  <<j, kind>> # <<llm.dest, "combined">>
                                     => outFiles[j][kind] = << >>)
    /\ [](~llm.succeeded => outFiles = EmptyFiles)
    /\ [][/\ llm.st = "returned" => (llm' = llm /\ outFiles' = outFiles)
          /\ llm'.succeeded # llm.succeeded
                => (llm'.st = "returned" /\ llm'.calls = llm.calls + 1)]_vars

\* C27 witness: after one failed attempt the second one returned two
\* candidates with a non-text part and two text parts; both texts are
\* returned and written to the destination in response order
C27_Witness ==
    /\ llm.st = "returned"
    /\ llm.succeeded
    /\ llm.calls = 2
    /\ llm.dest = 1
    /\ llm.resp = <<Candidate(<<BlobPart, TextPart(<<"b">>)>>),
                    Candidate(<<TextPart(<<"c">>)>>)>>
    /\ llm.result = <<"b", "c">>
    /\ outFiles[1]["combined"]
          = <<Line("llm", 0, 0, <<"b">>), Line("llm", 0, 0, <<"c">>)>>

\* C28: sentLlmPrompt sleeps once, for 15 seconds, after every failed
\* attempt but the fourth: a running call has slept as often as it has
\* called GenerateContent, a returned call once less, and neither the first
\* attempt, a successful attempt nor the last failed one is followed by a
\* sleep.
C28_FixedDelayBetweenAttempts ==
    /\ [](/\ llm.slept = 15 * llm.sleeps
          /\ llm.st = "running" => llm.sleeps = llm.calls
          /\ llm.st = "returned" => llm.sleeps = llm.calls - 1
          /\ llm.calls = 0 => llm.slept = 0)
    /\ [][/\ llm'.slept \in {llm.slept, llm.slept + 15}
          /\ llm'.slept # llm.slept
                => (llm'.st = "running" /\ llm'.calls = llm.calls + 1
                    /\ llm.calls < 3)
          /\ llm'.st = "returned" => llm'.slept = llm.slept]_vars

\* C28 witness: a call that succeeded at its third attempt has slept twice,
\* 30 seconds in all
C28_Witness ==
    /\ llm.st = "returned"
    /\ llm.succeeded
    /\ llm.calls = 3
    /\ llm.sleeps = 2
    /\ llm.slept = 30

\* C29: while processChunk waits, the audio file of the segment is on disk
\* until the audio goroutine, past whisper-cli and its write, removes it as
\* its last step, and the video file until the video goroutine, past
\* transcribeVideoLLM (upload, prompt, frame extraction and OCR) and its
\* write, removes it as its last step; neither file disappears in any other
\* step and neither comes back.
C29_ArtifactRemovedByItsTask ==
    /\ [](mpc = "wgWait"
            => /\ Chunk.AudioPath \in temp <=> au.pc # "done"
               /\ Chunk.VideoPath \in temp <=> vi.pc # "done"
               /\ vi.pc = "remove"
                     => (VideoReturned /\ llm.st # "running"
                         /\ ocr.st \notin {"dispatch", "wait", "collect"}))
    /\ [][mpc = "wgWait"
            => LET a == Chunk.AudioPath
                   v == Chunk.VideoPath
                   wroteAudio == WriteAttempted("audio")
                   wroteVideo == WriteAttempted("video")
               IN  /\ (a \in temp /\ a \notin temp')
                         => (au.pc = "remove" /\ au'.pc = "done" /\ vi' = vi
                             /\ wroteAudio /\ au.err \in {"nil", "whisper"})
                   /\ (v \in temp /\ v \notin temp')
                         => (vi.pc = "remove" /\ vi'.pc = "done" /\ au' = au
                             /\ wroteVideo)
                   /\ a \in temp' => a \in temp
                   /\ v \in temp' => v \in temp]_vars

\* C29 witness: the audio goroutine has removed the audio file while the
\* fallback of the video goroutine is still running OCR and the video file
\* is on disk
C29_Witness ==
    /\ mpc = "wgWait"
    /\ au.pc = "done"
    /\ Chunk.AudioPath \notin temp
    /\ vi.pc = "ocr"
    /\ Chunk.VideoPath \in temp

\* the workers whose temp file exists: created and not yet removed
HoldingTemp ==
    {f \in 1..ocr.n : \/ ocr.w[f] = "temp"
                      \/ ocr.w[f] = "exit" /\ f \in ocr.made}

\* C30: the temp files on disk are exactly those of the workers between
\* os.CreateTemp and their deferred os.Remove, one file per worker; a file is
\* created once, by a worker that had none, and removed once, by its own
\* worker when it returns; a worker that fails before os.CreateTemp leaves
\* the files alone; and no temp file is left when wg.Wait has returned.
C30_TempFileRemovedOnce ==
    /\ [](/\ ocr.temps = HoldingTemp
          /\ ocr.temps \subseteq ocr.made
          /\ ocr.made \subseteq 1..ocr.n
          /\ ocr.st \in {"collect", "returned"}
                => (ocr.temps = {}
                    /\ \A f \in 1..ocr.n : ocr.w[f] = "done"))
    /\ [][\A f \in 1..ocr.n :
             /\ (f \in ocr.temps /\ f \notin ocr'.temps)
                   => (ocr.w[f] = "exit" /\ ocr'.w[f] = "released"
                       /\ ocr'.temps = ocr.temps \ {f})
             /\ (f \notin ocr.temps /\ f \in ocr'.temps)
                   => (ocr.w[f] = "start" /\ f \notin ocr.made
                       /\ ocr'.temps = ocr.temps \cup {f})
             /\ (f \notin ocr.made /\ ocr.w[f] = "exit"
                 /\ ocr'.w[f] = "released")
                   => ocr'.temps = ocr.temps
             /\ f \in ocr.made => f \in ocr'.made]_vars

\* C30 witness: the call has returned; the first worker created its temp
\* file and failed afterwards, the second failed before creating one, and no
\* temp file is left
C30_Witness ==
    /\ ocr.st = "returned"
    /\ ocr.n = 2
    /\ ocr.made = {1}
    /\ ocr.ok = {}
    /\ ocr.temps = {}

\* C31: the step in which extractFrames fails leaves the temporary files as
\* they were: the frame directory of the segment does not exist afterwards,
\* whether ffmpeg failed (the directory was made and removed) or
\* os.MkdirTemp failed (nothing was made); the call has returned an error
\* and no frame path, so that no ensemble is started on its result.
C31_FailedExtractionLeavesNothing ==
    /\ [](mpc = "wgWait"
            => /\ vi.err = "frames"
                     => (FrameDir(Chunk) \notin temp
                         /\ vi.frameDir = "none"
                         /\ ocr.st = "idle" /\ ocr.n = 0)
               /\ FrameDir(Chunk) \in temp => vi.frameDir = "exists")
    /\ [][(mpc = "wgWait" /\ vi.pc = "frames" /\ vi'.err = "frames")
            => /\ temp' = temp
               /\ ocr' = ocr
               /\ vi'.transcript = NoText
               /\ vi'.pc \in {"deleteFile", "sendErr"}]_vars

\* C31 witness: after an empty answer of the cloud model the frame
\* extraction has failed; the chunk's files are still there and the frame
\* directory is not
C31_Witness ==
    /\ mpc = "wgWait"
    /\ vi.err = "frames"
    /\ vi.fallback = "empty"
    /\ vi.pc = "deleteFile"
    /\ FrameDir(Chunk) \notin temp
    /\ Chunk.VideoPath \in temp

\* the artifact paths of a list of chunks
PathsOf(list) ==
    {list[k].VideoPath : k \in 1..Len(list)}
        \cup {list[k].AudioPath : k \in 1..Len(list)}

\* the artifact paths chunkVideo can give to jobs other than v
PathsOfOtherJobs(v) ==
    {<<e, i, w>> : e \in {"mp4", "wav"}, i \in 0..MaxDurationTicks,
                   w \in Jobs \ {v}}

\* C32: the list chunkVideo returns without an error, and the list it has
\* built at any moment, holds the chunks numbered 0, 1, ... in that order,
\* each with the video index and the base name of the call, and two paths
\* per chunk that differ from each other, from those of every other chunk
\* and from those of every other job.
C32_DenseDistinctSegments ==
    (cv.st \in {"loop", "returned"} /\ cv.err = "nil")
        => LET n == Len(cv.chunks) IN
           /\ cv.st = "returned" => n = cv.numChunks
           /\ cv.st = "loop" => n = cv.i
           /\ \A k \in 1..n :
                 /\ cv.chunks[k].ChunkNum = k - 1
                 /\ cv.chunks[k].VideoIndex = cv.vIdx
                 /\ cv.chunks[k].BaseName = videoPaths[cv.vIdx].stem
                 /\ cv.chunks[k].Err = "nil"
           /\ Cardinality(PathsOf(cv.chunks)) = 2 * n
           /\ PathsOf(cv.chunks) \cap PathsOfOtherJobs(cv.vIdx) = {}

\* C32 witness: chunkVideo has returned four chunks
C32_Witness ==
    /\ cv.st = "returned"
    /\ cv.err = "nil"
    /\ Len(cv.chunks) = 4
    /\ Cardinality(PathsOf(cv.chunks)) = 8

\* C33: the only streams that are open are those of the job main's loop is
\* working on, so that a job's streams are closed when the job ends and the
\* streams of at most one job are open at a time.
C33_StreamsClosedWithJob ==
    /\ \A p \in OpenStreams :
          p[1] = Job /\ jobOutcome[p[1]] \in {"none", "running"}
    /\ Cardinality({p[1] : p \in OpenStreams}) <= 1

\* the run is over: main has returned or log.Fatalf has ended the process
RunEnded == mpc \in {"done", "fatal"}

\* the errors sent so far, in the order in which they were sent
SentSoFar == logged \o errorChannel

\* C34: the error channel is closed only after the loop over the jobs, when
\* no task is left, and nothing is sent on it afterwards; no error is
\* received before the drain; the drain logs the errors in the order in
\* which they were sent, each once; and when the run is over every error
\* that was sent has been logged.
C34_EverySentErrorLogged ==
    /\ [](chanClosed
            => (mpc \in {"drain", "done"} /\ au = TaskIdle /\ vi = VideoIdle))
    /\ [](mpc \notin {"drain", "done"} => logged = << >>)
    /\ [][/\ chanClosed => (chanClosed' /\ Len(SentSoFar') = Len(SentSoFar))
          /\ IsPrefix(SentSoFar, SentSoFar')]_vars
    /\ [](RunEnded => errorChannel = << >>)

\* the output files other than kind of job j are left as they are
OnlyFileChanged(j, kind) ==
    \A i \in Jobs : \A k \in Kinds :
        <<i, k>> # <<j, kind>> => outFiles'[i][k] = outFiles[i][k]

\* C35: while a segment is processed, a step of the audio goroutine changes
\* no output file but the job's audio file and removes nothing but the
\* segment's audio file; a step of the video goroutine changes no output
\* file but the job's video file and leaves the segment's audio file alone;
\* no step changes a combined file.  A combined file changes only during its
\* own job's refinement, by lines of the model's answer or by the job's
\* completion marker.
C35_TasksKeepToTheirOwn ==
    /\ [][(mpc = "wgWait" /\ mpc' = "wgWait")
            => LET a == Chunk.AudioPath
                   v == Chunk.VideoPath
               IN  /\ au' # au
                         => /\ OnlyFileChanged(Job, "audio")
                            /\ temp' \subseteq temp
                            /\ temp \ temp' \subseteq {a}
                            /\ vi' = vi
                   /\ vi' # vi
                         => /\ OnlyFileChanged(Job, "video")
                            /\ a \in temp => a \in temp'
                            /\ au' = au
                   /\ (v \in temp /\ v \notin temp') => vi' # vi
                   /\ \A j \in Jobs :
                         outFiles'[j]["combined"] = outFiles[j]["combined"]]_vars
    /\ [][\A j \in Jobs :
             outFiles'[j]["combined"] # outFiles[j]["combined"]
                => /\ mpc = "refine" /\ j = Job
                   /\ IsPrefix(outFiles[j]["combined"], outFiles'[j]["combined"])
                   /\ \A n \in (Len(outFiles[j]["combined"]) + 1)
                                  ..Len(outFiles'[j]["combined"]) :
                         \/ outFiles'[j]["combined"][n].kind = "llm"
                         \/ outFiles'[j]["combined"][n]
                               = Line("marker", j, 0, NoText)]_vars

\* C35 witness: both goroutines of a segment have written their record and
\* removed their file, and the combined file is still empty
C35_Witness ==
    /\ mpc = "wgWait"
    /\ au.pc = "done" /\ vi.pc = "done"
    /\ Len(outFiles[Job]["audio"]) = 1
    /\ Len(outFiles[Job]["video"]) = 1
    /\ outFiles[Job]["combined"] = << >>
    /\ Chunk.AudioPath \notin temp /\ Chunk.VideoPath \notin temp

\* C36: a job that has written its completion markers keeps its three
\* files: whatever the later jobs open and write, each file still holds the
\* job's own lines and ends with the job's marker.
C36_JobsKeepTheirOwnFiles ==
    \A i \in 1..numVideos :
        jobOutcome[i] = "complete"
            => \A k \in Kinds :
                  LET file == FileContent(i, k) IN
                  /\ file # << >>
                  /\ file[Len(file)] = Line("marker", i, 0, NoText)
                  /\ \A n \in 1..Len(file) :
                        file[n].kind \in {"record", "marker"} => file[n].v = i

\* the number of elements of flags that are TRUE
Count(flags) == Cardinality({n \in 1..Len(flags) : flags[n]})

\* whisper-cli processes: the audio goroutine is in transcribeAudioWhisperCLI
WhisperProcesses == Count(<<au.pc = "whisper">>)

\* uploads and prompts in flight: the video goroutine is in
\* UploadFileFromPath, or sentLlmPrompt is running for it or for main
CloudCalls == Count(<<vi.pc = "upload", llm.st = "running">>)

\* ffprobe and ffmpeg processes: main is in chunkVideo, or the video
\* goroutine is in extractFrames
TranscoderProcesses == Count(<<cv.st \in {"probe", "loop"}, vi.pc = "frames">>)

\* tesseract processes: the workers between os.CreateTemp and their result
OcrProcesses == Cardinality({f \in 1..ocr.n : ocr.w[f] = "temp"})

\* C37: in every state at most one whisper-cli process, at most one upload
\* or prompt, at most one ffprobe or ffmpeg process and at most
\* min(NumCPU, 8) tesseract processes are running, whatever the number of
\* videos, chunks and frames.
C37_ProcessesBounded ==
    /\ WhisperProcesses <= 1
    /\ CloudCalls <= 1
    /\ TranscoderProcesses <= 1
    /\ OcrProcesses <= Min(numCPU, 8)

\* C37 witness: on one CPU and with a frame still waiting for a slot, one
\* tesseract process is running beside the whisper-cli process of the second
\* chunk
C37_Witness ==
    /\ numCPU = 1
    /\ ci = 2
    /\ WhisperProcesses = 1
    /\ OcrProcesses = 1
    /\ \E f \in 1..ocr.n : ocr.w[f] = "none"

====
